---- MODULE Spec2Model ----
(***************************************************************************)
(* A model of quicknotes: the note storage pipeline (src/src/storage.rs)   *)
(* and the note index (src/src/index.rs, src/src/lib.rs).                  *)
(*                                                                         *)
(* File names are sequences of one-character strings, file contents are    *)
(* sequences of bytes, so that the regular expression of                   *)
(* find_next_destination_basename, the formatting of a numbered name and   *)
(* the byte comparison of is_different are computed, not assumed.          *)
(***************************************************************************)
EXTENDS Integers, Sequences, FiniteSets, TLC

\* ------------------------------------------------------------------------
\* Bounds of the model
\* ------------------------------------------------------------------------

\* Most files in the storage directory when a store call starts.
MaxInitFiles == 4
\* Most files other processes create while a store call runs.
MaxEnvCreates == 2

\* Lines a daily note grows to under repeated edits.
MaxNoteLines == 6

\* Lines of the longest stream handed to extract_preamble.
MaxStreamLines == 5

\* Characters of the longest title a file stem is derived from.
MaxTitleLen == 3

\* ------------------------------------------------------------------------
\* Values
\* ------------------------------------------------------------------------

Procs == {1, 2}

\* What a staged note may hold after the editor ran: nothing, the baseline
\* itself, the baseline with its one byte changed, the baseline with a byte
\* appended.
StagedContents == {<< >>, <<"a">>, <<"b">>, <<"a", "b">>}

\* The content of a file that was in the directory before, or that another
\* process created: a byte no staged note holds.
ForeignContent == <<"o">>

\* The baseline store_if_different compares against (what the staged file
\* held before the editor ran).
Baseline == <<"a">>

Digit == {"0", "1", "2", "3", "4", "5", "6", "7", "8", "9"}

\* A decimal digit outside ASCII (ARABIC-INDIC DIGIT THREE), written as its
\* code point: one character of a file name.
UnicodeDigit == {"U+0663"}

DigitVal(c) ==
  CASE c = "0" -> 0 [] c = "1" -> 1 [] c = "2" -> 2 [] c = "3" -> 3
    [] c = "4" -> 4 [] c = "5" -> 5 [] c = "6" -> 6 [] c = "7" -> 7
    [] c = "8" -> 8 [] c = "9" -> 9

DigitChar(d) ==
  CASE d = 0 -> "0" [] d = 1 -> "1" [] d = 2 -> "2" [] d = 3 -> "3"
    [] d = 4 -> "4" [] d = 5 -> "5" [] d = 6 -> "6" [] d = 7 -> "7"
    [] d = 8 -> "8" [] d = 9 -> "9"

\* str::parse::<u32> of a non-empty string of decimal digits.
RECURSIVE ParseU32(_)
ParseU32(ds) ==
  IF Len(ds) = 0 THEN 0
  ELSE 10 * ParseU32(SubSeq(ds, 1, Len(ds) - 1)) + DigitVal(ds[Len(ds)])

\* The "{suffix_num}" of format!: the decimal digits of a number.
RECURSIVE FormatU32(_)
FormatU32(n) ==
  IF n < 10 THEN <<DigitChar(n)>>
  ELSE Append(FormatU32(n \div 10), DigitChar(n % 10))

\* The preferred file stem and the file extension of the notes.
Stem == <<"n">>
Extension == <<"t">>

\* storage_directory.join(stem).with_extension(ext), as a file name.
PreferredName == Stem \o <<".">> \o Extension

\* format!("{stem}-{suffix_num}.{extension}")
NumberedName(n) == Stem \o <<"-">> \o FormatU32(n) \o <<".">> \o Extension

\* ------------------------------------------------------------------------
\* find_next_destination_basename (src/src/storage.rs)
\* ------------------------------------------------------------------------

\* The decimal digits of u32::MAX, 4294967295.
U32MaxDigits == <<"4", "2", "9", "4", "9", "6", "7", "2", "9", "5">>

RECURSIVE StripZeros(_)
StripZeros(ds) ==
  IF Len(ds) > 1 /\ ds[1] = "0" THEN StripZeros(Tail(ds)) ELSE ds

\* a <= b for two digit strings of the same length.
RECURSIVE DigitsLeq(_, _)
DigitsLeq(a, b) ==
  IF Len(a) = 0 THEN TRUE
  ELSE IF DigitVal(a[1]) # DigitVal(b[1]) THEN DigitVal(a[1]) < DigitVal(b[1])
  ELSE DigitsLeq(Tail(a), Tail(b))

\* The class \d of the regex crate: Unicode-aware, every decimal digit.
RegexDigit == Digit \cup UnicodeDigit

\* The lengths d of a digit run with which
\*     escape(stem) "-" (\d+) . escape(extension)
\* matches name starting at position i. The "." is unescaped: any character.
MatchLens(name, stem, extension, i) ==
  LET ds == i + Len(stem) + 1   \* where the digits start
  IN  {d \in 1..Len(name) :
         /\ ds + d + Len(extension) <= Len(name)
         /\ SubSeq(name, i, i + Len(stem) - 1) = stem
         /\ name[i + Len(stem)] = "-"
         /\ \A k \in 0..(d - 1) : name[ds + k] \in RegexDigit
         /\ name[ds + d] # "\n"
         /\ SubSeq(name, ds + d + 1, ds + d + Len(extension)) = extension}

SetMax(S) == CHOOSE x \in S : \A y \in S : y <= x
SetMin(S) == CHOOSE x \in S : \A y \in S : x <= y

\* No capture: group 1 holds at least one digit when the pattern matches.
NoCapture == << >>

\* pattern.captures(file_name), group 1: a search anywhere in the name (the
\* pattern has no anchors), leftmost match, the digit run greedy.
CapturedSuffix(name, stem, extension) ==
  LET starts == {i \in 1..Len(name) : MatchLens(name, stem, extension, i) # {}}
  IN  IF starts = {} THEN NoCapture
      ELSE LET i == SetMin(starts)
               d == SetMax(MatchLens(name, stem, extension, i))
           IN  SubSeq(name, i + Len(stem) + 1, i + Len(stem) + d)

\* suffix.as_str().parse::<u32>() is Ok: every digit is ASCII and the value
\* is at most u32::MAX (decided on the digits: the value itself may not fit
\* the model checker's integers).
ParsesAsU32(ds) ==
  /\ \A k \in 1..Len(ds) : ds[k] \in Digit
  /\ LET sig == StripZeros(ds)
     IN  \/ Len(sig) < Len(U32MaxDigits)
         \/ Len(sig) = Len(U32MaxDigits) /\ DigitsLeq(sig, U32MaxDigits)

\* The outcome of an arithmetic operation that overflowed: a panic in a
\* build with overflow checks, the wrapped value in a build without.
Overflow(wrapped) == [tag |-> "Overflow", wrapped |-> wrapped]

\* What the build makes of an outcome.
Built(outcome, overflow_checks) ==
  IF outcome.tag # "Overflow" THEN outcome
  ELSE IF overflow_checks THEN [tag |-> "Panic"]
  ELSE outcome.wrapped

\* The numbered basename for a directory listing: 1 + the largest captured
\* suffix, folded from 0. The .expect() on parse::<u32> panics on a capture
\* that does not parse, and max + 1 overflows on u32::MAX: a panic with
\* overflow checks, a wrap to 0 without.
find_next_destination_basename(names, stem, extension) ==
  LET captured == {CapturedSuffix(nm, stem, extension) : nm \in names} \ {NoCapture}
      nums     == {ParseU32(ds) : ds \in captured}
      max      == SetMax(nums \cup {0})
  IN  IF \E ds \in captured : ~ParsesAsU32(ds) THEN [tag |-> "Panic"]
      ELSE IF \E ds \in captured : StripZeros(ds) = U32MaxDigits
      THEN Overflow([tag |-> "Ok",
                     basename |-> stem \o <<"-">> \o FormatU32(0) \o <<".">> \o extension])
      ELSE [tag |-> "Ok",
            basename |-> stem \o <<"-">> \o FormatU32(max + 1) \o <<".">> \o extension]

\* Path::file_stem and Path::extension of a file name with a '.' in it: the
\* parts before and after the last '.'.
LastDot(name) == SetMax({i \in 1..Len(name) : name[i] = "."})
FileStem(name) == SubSeq(name, 1, LastDot(name) - 1)
FileExtension(name) == SubSeq(name, LastDot(name) + 1, Len(name))

\* ------------------------------------------------------------------------
\* The storage directory, the staged file, and a store call per process
\* ------------------------------------------------------------------------

VARIABLES
  dir,          \* the storage directory: file name -> [bytes, by]
  pc,           \* where each process is in its store call
  call,         \* the call: [strategy, gated] (store_if_different or store)
  destination,  \* StoreNoteAt.destination / the loop variable of StoreNoteIn
  tempfile,     \* TempFileHandle: [bytes, cursor (of opened), path]
  pending,      \* the error a failed step returns once the note is preserved
  result,       \* what the call returned
  stderr,       \* note contents printed to the error stream, per process
  collisions,   \* AlreadyExists answers the call got from create_new
  envCreates,   \* files other processes created so far
  files,        \* the note tree: path -> a directory, a file's lines, or nothing
  table,        \* the notes table of the index: filepath -> row
  indexFile,    \* the index store's file: "absent", at the initial schema
                \* ("initial"), or "present" at the latest schema
  last,         \* the latest index operation and what it returned
  session       \* a library call step by step: where it is, and its connection

storeVars ==
  <<dir, pc, call, destination, tempfile, pending, result, stderr, collisions,
    envCreates>>

indexVars == <<files, table, indexFile, last, session>>

\* A name that carries a number although it is not stem-K.ext.
DecoyName == <<"x">> \o NumberedName(7)
\* stem-K.ext with K = 99999999999, over u32::MAX.
OverflowName ==
  Stem \o <<"-", "9", "9", "9", "9", "9", "9", "9", "9", "9", "9", "9", ".">> \o Extension

SeedNames ==
  {PreferredName, NumberedName(1), NumberedName(2), NumberedName(3), DecoyName,
   OverflowName}

RaceSeedNames == {PreferredName, NumberedName(1), OverflowName}

ForeignFile == [bytes |-> ForeignContent, by |-> 0]

\* The directories a call may start from: up to MaxInitFiles of the seeds.
InitDirs(seeds) ==
  {[n \in S |-> ForeignFile] : S \in {T \in SUBSET seeds : Cardinality(T) <= MaxInitFiles}}

Exists(d, name) == name \in DOMAIN d

WithFile(d, name, file) ==
  [n \in DOMAIN d \cup {name} |-> IF n = name THEN file ELSE d[n]]

NoError == [tag |-> "NoError"]
Pending == [tag |-> "Pending"]

CopyError(kind) == [tag |-> "CopyError", kind |-> kind]
NoteClobberPreventionError == [tag |-> "NoteClobberPreventionError"]
\* io::Error kinds keep() and read_to_string may fail with.
IoErrors == {"PermissionDenied", "NotFound"}

\* A note-lost error whose keep_error is not the error keep() returned.
TryPreserveNoteErrorOfRead(keep_error, read_error) ==
  [tag |-> "TryPreserveNoteError", keep_error |-> read_error, read_error |-> read_error]

TryPreserveNoteError(keep_error, read_error) ==
  [tag |-> "TryPreserveNoteError", keep_error |-> keep_error, read_error |-> read_error]
CheckFileError == [tag |-> "CheckFileError"]
Panicked == [tag |-> "Panic"]
OkPath(name) == [tag |-> "Ok", path |-> name]
OkNone == [tag |-> "OkNone"]

IsError(r) ==
  r.tag \in {"CopyError", "NoteClobberPreventionError", "TryPreserveNoteError",
             "CheckFileError"}

\* What a reader at tempfile.opened gets: the bytes from the cursor on.
Unread(t) == SubSeq(t.bytes, t.cursor + 1, Len(t.bytes))

\* Sha256 of a byte string: injective (a collision is taken not to happen).
Sha256(bytes) == <<"sha256", bytes>>

\* ------------------------------------------------------------------------
\* The steps of a store call (src/src/storage.rs)
\* ------------------------------------------------------------------------

Done(p, r) ==
  /\ pc' = [pc EXCEPT ![p] = "done"]
  /\ result' = [result EXCEPT ![p] = r]

Goto(p, label) ==
  /\ pc' = [pc EXCEPT ![p] = label]
  /\ result' = result

\* An Err arm that returns err without try_preserve_note: the staged file is
\* neither kept nor printed.
FailWithoutPreserving(p, err) ==
  /\ pending' = pending
  /\ Done(p, err)

\* The Err arms of do_store and store_if_different: try_preserve_note runs
\* on the staged file, and err is returned once it has.
FailWith(p, err) ==
  /\ pending' = [pending EXCEPT ![p] = err]
  /\ Goto(p, "keep")

\* An open with create(true).truncate(true): whatever is at the path is
\* emptied and written over.
OpenTruncate(d, name, p) ==
  [ok |-> TRUE, dir |-> WithFile(d, name, [bytes |-> << >>, by |-> p])]

\* OpenOptions::new().write(true).create_new(true).open(to): the file is
\* created, empty, only if nothing is at the path; AlreadyExists otherwise.
OpenCreateNew(d, name, p) ==
  IF Exists(d, name)
  THEN [ok |-> FALSE, dir |-> d]
  ELSE [ok |-> TRUE, dir |-> WithFile(d, name, [bytes |-> << >>, by |-> p])]

\* A comparison of lengths in place of digests.
is_different_by_length(t, against) == Len(against) # Len(Unread(t))

\* is_different: hashes `against` and what is left to read of the staged
\* file, and compares the digests.
is_different(t, against) == Sha256(against) # Sha256(Unread(t))

\* The reader as the hashing pass leaves it: at the end of the file.
hashed_without_rewind(t) == [t EXCEPT !.cursor = Len(t.bytes)]

\* tempfile.opened.rewind(): the reader is back at the first byte.
rewind(t) == [t EXCEPT !.cursor = 0]

\* store_if_different up to the call of storage.store: Ok(false) returns
\* Ok(None) and drops the staged file; Ok(true) has rewound the reader.
IsDifferent(p) ==
  /\ pc[p] = "check"
  /\ IF is_different(tempfile[p], call[p].against)
     THEN /\ tempfile' = [tempfile EXCEPT ![p] = rewind(@)]
          /\ Goto(p, "copy")
     ELSE /\ tempfile' = [tempfile EXCEPT ![p].cursor = Len(tempfile[p].bytes),
                                          ![p].path = "removed"]
          /\ Done(p, OkNone)
  /\ UNCHANGED <<dir, call, destination, pending, stderr, collisions, envCreates>>
  /\ UNCHANGED indexVars

\* is_different returns Err: reading the staged file, or the rewind, failed.
IsDifferentFails(p) ==
  /\ pc[p] = "check"
  /\ FailWith(p, CheckFileError)
  /\ UNCHANGED <<dir, call, destination, tempfile, stderr, collisions, envCreates>>
  /\ UNCHANGED indexVars

\* An open after which StoreNoteAt too goes on to generate another name.
CopyOpenRedirecting(p) ==
  /\ pc[p] = "copy"
  /\ LET opened == OpenCreateNew(dir, destination[p], p)
     IN  /\ dir' = opened.dir
         /\ IF opened.ok
            THEN /\ Goto(p, "write")
                 /\ UNCHANGED collisions
            ELSE /\ collisions' = [collisions EXCEPT ![p] = @ + 1]
                 /\ Goto(p, "scan")
  /\ UNCHANGED <<call, destination, tempfile, pending, stderr, envCreates>>
  /\ UNCHANGED indexVars

\* copy_to_destination, the open: on AlreadyExists StoreNoteAt fails and
\* StoreNoteIn goes on to generate another name.
CopyOpen(p) ==
  /\ pc[p] = "copy"
  /\ LET opened == OpenCreateNew(dir, destination[p], p)
     IN  /\ dir' = opened.dir
         /\ IF opened.ok
            THEN /\ Goto(p, "write")
                 /\ UNCHANGED <<pending, collisions>>
            ELSE /\ collisions' = [collisions EXCEPT ![p] = @ + 1]
                 /\ IF call[p].strategy = "StoreNoteIn"
                    THEN Goto(p, "scan") /\ pending' = pending
                    ELSE FailWith(p, CopyError("AlreadyExists"))
  /\ UNCHANGED <<call, destination, tempfile, stderr, envCreates>>
  /\ UNCHANGED indexVars

\* copy_to_destination, the open fails with another I/O error.
CopyOpenFails(p) ==
  /\ pc[p] = "copy"
  /\ FailWith(p, CopyError("Other"))
  /\ UNCHANGED <<dir, call, destination, tempfile, stderr, collisions, envCreates>>
  /\ UNCHANGED indexVars

\* A successful copy after which the staged file is left where it is.
CopyWriteLeavingStaged(p) ==
  /\ pc[p] = "write"
  /\ dir' = [dir EXCEPT ![destination[p]].bytes = Unread(tempfile[p])]
  /\ tempfile' = [tempfile EXCEPT ![p].cursor = Len(tempfile[p].bytes)]
  /\ Done(p, OkPath(destination[p]))
  /\ UNCHANGED <<call, destination, pending, stderr, collisions, envCreates>>
  /\ UNCHANGED indexVars

\* copy_to_destination, io::copy: the rest of the staged file goes into the
\* created file, the call returns its path and drops the staged file.
CopyWrite(p) ==
  /\ pc[p] = "write"
  /\ dir' = [dir EXCEPT ![destination[p]].bytes = Unread(tempfile[p])]
  /\ tempfile' = [tempfile EXCEPT ![p].cursor = Len(tempfile[p].bytes),
                                  ![p].path = "removed"]
  /\ Done(p, OkPath(destination[p]))
  /\ UNCHANGED <<call, destination, pending, stderr, collisions, envCreates>>
  /\ UNCHANGED indexVars

\* copy_to_destination, io::copy fails after k bytes.
CopyWriteFails(p) ==
  /\ pc[p] = "write"
  /\ \E k \in 0..Len(Unread(tempfile[p])) :
       /\ dir' = [dir EXCEPT ![destination[p]].bytes = SubSeq(Unread(tempfile[p]), 1, k)]
       /\ tempfile' = [tempfile EXCEPT ![p].cursor = @ + k]
  /\ FailWith(p, CopyError("Other"))
  /\ UNCHANGED <<call, destination, stderr, collisions, envCreates>>
  /\ UNCHANGED indexVars

\* generate_unclobbered_destination(&destination): stem and extension are
\* those of the current destination, the directory is read, and the loop
\* goes round with the numbered name. A panic unwinds (the staged file is
\* dropped) or aborts (it stays), as the build has it.
GenerateUnclobberedDestination(p) ==
  /\ pc[p] = "scan"
  /\ \E overflow_checks \in BOOLEAN :
     LET found == Built(find_next_destination_basename(
                          DOMAIN dir, FileStem(destination[p]),
                          FileExtension(destination[p])),
                        overflow_checks)
     IN  IF found.tag = "Ok"
         THEN /\ destination' = [destination EXCEPT ![p] = found.basename]
              /\ Goto(p, "copy")
              /\ tempfile' = tempfile
         ELSE /\ destination' = destination
              /\ Done(p, Panicked)
              /\ \E left \in {"removed", "temp"} :
                   tempfile' = [tempfile EXCEPT ![p].path = left]
  /\ UNCHANGED <<dir, call, pending, stderr, collisions, envCreates>>
  /\ UNCHANGED indexVars

\* fs::read_dir, or an entry of it, fails: ReadDirError.
GenerateUnclobberedDestinationFails(p) ==
  /\ pc[p] = "scan"
  /\ FailWith(p, NoteClobberPreventionError)
  /\ UNCHANGED <<dir, call, destination, tempfile, stderr, collisions, envCreates>>
  /\ UNCHANGED indexVars

\* try_preserve_note: tempfile.path.keep() is Ok, the staged file stays
\* where it is for good, and the caller returns its error.
TryPreserveNoteKeep(p) ==
  /\ pc[p] = "keep"
  /\ tempfile' = [tempfile EXCEPT ![p].path = "kept"]
  /\ Done(p, pending[p])
  /\ UNCHANGED <<dir, call, destination, pending, stderr, collisions, envCreates>>
  /\ UNCHANGED indexVars

\* try_preserve_note: keep() fails, and its PathPersistError hands back the
\* error and the path.
TryPreserveNoteKeepFails(p) ==
  /\ pc[p] = "keep"
  /\ \E keep_error \in IoErrors :
       tempfile' = [tempfile EXCEPT ![p].keep_error = keep_error]
  /\ Goto(p, "read")
  /\ UNCHANGED <<dir, call, destination, pending, stderr, collisions, envCreates>>
  /\ UNCHANGED indexVars

\* A fallback that reads the staged file and prints nothing.
TryPreserveNoteReadSilent(p) ==
  /\ pc[p] = "read"
  /\ tempfile' = [tempfile EXCEPT ![p].path = "removed"]
  /\ Done(p, pending[p])
  /\ UNCHANGED <<dir, call, destination, pending, stderr, collisions, envCreates>>
  /\ UNCHANGED indexVars

\* try_preserve_note: fs::read_to_string(tempfile_path) is Ok, the contents
\* go to the error stream, the TempPath the keep error gave back is dropped
\* (the staged file is removed), and the caller returns its error.
TryPreserveNoteRead(p) ==
  /\ pc[p] = "read"
  /\ stderr' = [stderr EXCEPT ![p] = Append(@, tempfile[p].bytes)]
  /\ tempfile' = [tempfile EXCEPT ![p].path = "removed"]
  /\ Done(p, pending[p])
  /\ UNCHANGED <<dir, call, destination, pending, collisions, envCreates>>
  /\ UNCHANGED indexVars

\* try_preserve_note: the read fails too: TryPreserveNoteError.
TryPreserveNoteReadFails(p) ==
  /\ pc[p] = "read"
  /\ tempfile' = [tempfile EXCEPT ![p].path = "removed"]
  /\ \E read_error \in IoErrors :
       Done(p, TryPreserveNoteError(tempfile[p].keep_error, read_error))
  /\ UNCHANGED <<dir, call, destination, pending, stderr, collisions, envCreates>>
  /\ UNCHANGED indexVars

\* Another process creates a file in the directory: at the preferred name,
\* or at the very name a store call is about to try.
EnvNames == {PreferredName} \cup {destination[p] : p \in {q \in Procs : pc[q] # "idle"}}

EnvCreate ==
  /\ envCreates < MaxEnvCreates
  /\ \E p \in Procs : pc[p] \notin {"idle", "done"}
  /\ \E name \in EnvNames :
       /\ ~Exists(dir, name)
       /\ dir' = WithFile(dir, name, ForeignFile)
  /\ envCreates' = envCreates + 1
  /\ UNCHANGED <<pc, call, destination, tempfile, pending, result, stderr, collisions>>
  /\ UNCHANGED indexVars

\* ------------------------------------------------------------------------
\* The index store (index.rs): values, rows and their conversions
\* ------------------------------------------------------------------------

NoteKinds == {"Note", "Daily"}

\* A to_sql_enum whose match arms both give "note".
to_sql_enum_note(kind) == "note"

to_sql_enum(kind) == IF kind = "Note" THEN "note" ELSE "daily"

try_from_sql_enum(sql_enum) ==
  IF sql_enum = "note" THEN [ok |-> TRUE, kind |-> "Note"]
  ELSE IF sql_enum = "daily" THEN [ok |-> TRUE, kind |-> "Daily"]
  ELSE [ok |-> FALSE, kind |-> sql_enum]

Titles == {"my cool note", "my awesome note"}

\* DateTime<FixedOffset>: an instant (seconds since the epoch, nanoseconds)
\* and an offset east of UTC in seconds.
\* 2015-10-21T07:28:00-07:00, the time of the tests.
TestTime == [utc |-> 1445437680, nano |-> 0, off |-> -25200]
\* 2015-10-22T15:28:00.5+01:00
LaterTime == [utc |-> 1445524080, nano |-> 500000000, off |-> 3600]

DateTimes == {TestTime, LaterTime}

Preambles == [title : Titles, created_at : DateTimes]

IndexedNote(preamble, kind) == [preamble |-> preamble, kind |-> kind]

\* A stored value with its SQLite storage class.
TextValue(s) == [class |-> "text", s |-> s]
IntegerValue(n) == [class |-> "integer", n |-> n]

\* "%.f" of chrono: nothing when the nanoseconds are 0, else a dot and 3, 6
\* or 9 digits, the fewest that lose nothing.
FractionWidth(nano) ==
  IF nano = 0 THEN 0
  ELSE IF nano % 1000000 = 0 THEN 3
  ELSE IF nano % 1000 = 0 THEN 6
  ELSE 9

Pow10(k) == IF k = 0 THEN 1 ELSE IF k = 3 THEN 1000 ELSE IF k = 6 THEN 1000000
            ELSE 1000000000

\* created_at.format(DB_DATE_FORMAT): the wall-clock time at the offset, the
\* offset itself left out; as text, with the fraction as "%.f" prints it.
FormatDbDate(dt) ==
  [class  |-> "text",
   local  |-> dt.utc + dt.off,
   width  |-> FractionWidth(dt.nano),
   digits |-> dt.nano \div Pow10(9 - FractionWidth(dt.nano))]

IsDbDate(value) ==
  value.class = "text" /\ DOMAIN value = {"class", "local", "width", "digits"}

\* Text that SQLite takes for a well-formed integer literal.
NumericTexts == {"0", "12345"}
NumericValue(s) == IF s = "0" THEN 0 ELSE 12345

\* Column affinity: in created_at (NUMERIC) and utc_offset_seconds
\* (INTEGER) a text that is a well-formed integer is stored as an integer;
\* anything else is stored as it comes.
NumericAffinity(value) ==
  IF value.class = "text" /\ DOMAIN value = {"class", "s"}
  THEN IF value.s \in NumericTexts THEN IntegerValue(NumericValue(value.s)) ELSE value
  ELSE value

\* The row add_note binds: (?2, ?3, ?4, ?5). `added` is no column: it keeps,
\* beside the row, the note add_note was called with.
NoteRow(preamble, kind) ==
  [added              |-> IndexedNote(preamble, kind),
   title              |-> TextValue(preamble.title),
   created_at         |-> NumericAffinity(FormatDbDate(preamble.created_at)),
   utc_offset_seconds |-> NumericAffinity(IntegerValue(preamble.created_at.off)),
   kind               |-> TextValue(to_sql_enum(kind))]

\* kind CHECK (kind IN ('note', 'daily')) NOT NULL
CheckKind(value) == value \in {TextValue("note"), TextValue("daily")}

EmptyTable == [path \in {} |-> 0]

Upsert(t, path, row) ==
  [q \in DOMAIN t \cup {path} |-> IF q = path THEN row ELSE t[q]]

Without(t, path) == [q \in DOMAIN t \ {path} |-> t[q]]

\* Paths that are not valid UTF-8: path.to_str() is None.
NonUtf8Paths == {"notes/\\xFF.txt"}

InvalidRow == [tag |-> "InvalidRow"]
DatabaseFailure == [tag |-> "DatabaseFailure"]

\* FixedOffset::east_opt, then NaiveDateTime::parse_from_str, then
\* from_local_datetime(..).single().
datetime_from_database(timestamp, utc_offset_seconds) ==
  IF ~(-86400 < utc_offset_seconds /\ utc_offset_seconds < 86400) THEN InvalidRow
  ELSE IF ~IsDbDate(timestamp) THEN InvalidRow
  ELSE [tag |-> "Ok",
        datetime |-> [utc  |-> timestamp.local - utc_offset_seconds,
                      nano |-> timestamp.digits * Pow10(9 - timestamp.width),
                      off  |-> utc_offset_seconds]]

\* unpack_row: row.get(i)? is a database failure when the stored value is not
\* of the type asked for (String, String, i32, String).
unpack_row(row) ==
  IF \/ row.title.class # "text"
     \/ row.created_at.class # "text"
     \/ row.utc_offset_seconds.class # "integer"
     \/ row.kind.class # "text"
  THEN DatabaseFailure
  ELSE LET created_at == datetime_from_database(row.created_at,
                                                row.utc_offset_seconds.n)
           kind       == try_from_sql_enum(row.kind.s)
       IN  IF created_at.tag # "Ok" THEN InvalidRow
           ELSE IF ~kind.ok THEN InvalidRow
           ELSE [tag  |-> "Ok",
                 note |-> IndexedNote([title      |-> row.title.s,
                                       created_at |-> created_at.datetime],
                                      kind.kind)]

LookupError == [tag |-> "LookupError"]

\* all_notes: a database failure on any row fails the query; invalid rows
\* are skipped with a warning; the rest is collected into a map.
all_notes(t) ==
  IF \E path \in DOMAIN t : unpack_row(t[path]) = DatabaseFailure
  THEN LookupError
  ELSE [tag   |-> "Ok",
        notes |-> [path \in {q \in DOMAIN t : unpack_row(t[q]).tag = "Ok"} |->
                     unpack_row(t[path]).note]]

\* An INSERT that leaves a row that is already there as it is.
add_note_or_ignore(t, preamble, kind, path) ==
  IF path \in NonUtf8Paths THEN [ok |-> FALSE, table |-> t, error |-> "BadPath"]
  ELSE IF path \in DOMAIN t THEN [ok |-> TRUE, table |-> t, error |-> "none"]
  ELSE [ok |-> TRUE, table |-> Upsert(t, path, NoteRow(preamble, kind)),
        error |-> "none"]

\* An add_note that stores the row under the path it could not convert, and
\* then reports BadPath.
add_note_lossy(t, preamble, kind, path) ==
  [ok    |-> path \notin NonUtf8Paths,
   table |-> Upsert(t, path, NoteRow(preamble, kind)),
   error |-> IF path \in NonUtf8Paths THEN "BadPath" ELSE "none"]

\* add_note: BadPath for a path that is not UTF-8; otherwise
\* INSERT .. ON CONFLICT(filepath) DO UPDATE.
add_note(t, preamble, kind, path) ==
  IF path \in NonUtf8Paths THEN [ok |-> FALSE, table |-> t, error |-> "BadPath"]
  ELSE [ok |-> TRUE, table |-> Upsert(t, path, NoteRow(preamble, kind)),
        error |-> "none"]

\* A DELETE without its WHERE clause.
delete_all(t, path) ==
  IF path \in NonUtf8Paths THEN [ok |-> FALSE, table |-> t]
  ELSE [ok |-> TRUE, table |-> EmptyTable]

\* A DELETE that removes nothing.
delete_nothing(t, path) ==
  IF path \in NonUtf8Paths THEN [ok |-> FALSE, table |-> t]
  ELSE [ok |-> TRUE, table |-> t]

\* delete_note: BadPath for a path that is not UTF-8; otherwise the row of
\* the path, if any, is deleted.
delete_note(t, path) ==
  IF path \in NonUtf8Paths THEN [ok |-> FALSE, table |-> t]
  ELSE [ok |-> TRUE, table |-> Without(t, path)]

\* A reset that keeps the rows.
reset_keeping_rows(t) == t

\* reset: the database file is truncated; index::open then sets up an empty
\* notes table.
reset(t) == EmptyTable

\* ------------------------------------------------------------------------
\* Note files and their preambles (note.rs)
\* ------------------------------------------------------------------------

\* The lines of a note file.
Fence == [line |-> "---\n"]
FenceAtEof == [line |-> "---"]
TitleLine(title) == [line |-> "title", title |-> title]
BodyLine == [line |-> "body"]

FitsI16(n) == n >= -32768 /\ n <= 32767

\* Integer division as Rust does it: towards zero.
Quotient(a, b) == IF a >= 0 THEN a \div b ELSE -((-a) \div b)

\* toml_datetime: the date and time as the wall clock at the offset shows
\* them, and the offset in minutes.
CreatedAtLine(dt) ==
  [line       |-> "created_at",
   local      |-> dt.utc + dt.off,
   nanosecond |-> dt.nano,
   minutes    |-> Quotient(dt.off, 60)]

\* An i16 product computed without overflow checks: it wraps.
WrapI16(n) == ((n + 32768) % 65536) - 32768

\* deserialize_datetime: offset_minutes is the i16 of Offset::Custom, so
\* offset_minutes * 60 is an i16 multiplication; FixedOffset::east_opt of the
\* product, then the wall-clock time at that offset. This is the value of a
\* build without overflow checks; MultiplyOverflows tells where a build with
\* them panics instead.
deserialize_datetime(l) ==
  LET offset_seconds == WrapI16(l.minutes * 60)
  IN  [utc  |-> l.local - offset_seconds,
       nano |-> l.nanosecond,
       off  |-> offset_seconds]

MultiplyOverflows(l) == ~FitsI16(l.minutes * 60)

SerializeError == [tag |-> "SerializeError"]

\* toml_datetime: the offset in seconds goes through try_into::<i16>() before
\* it is divided by 60, and the conversion's failure is the serializer's
\* error. (The year, month, day, hour, minute and second conversions cannot
\* fail for the dates here.)
toml_datetime(dt) ==
  IF FitsI16(dt.off) THEN [tag |-> "Ok", line |-> CreatedAtLine(dt)]
  ELSE SerializeError

\* Preamble::serialize: "---\n", the TOML without its trailing newline,
\* "\n---".
serialize(preamble) ==
  LET created_at == toml_datetime(preamble.created_at)
  IN  IF created_at.tag = "Ok"
      THEN [tag  |-> "Ok",
            text |-> <<Fence, TitleLine(preamble.title), created_at.line, FenceAtEof>>]
      ELSE SerializeError

MalformedFence == [tag |-> "MalformedFence"]
UnterminatedFence == [tag |-> "UnterminatedFence"]
DeserializeError == [tag |-> "DeserializeError"]

\* toml::from_str into Preamble: the document parses when every line is a
\* key and no key is there twice; created_at is then deserialized with
\* deserialize_datetime, where the multiplication may overflow, and a missing
\* title or created_at is an error once the keys have been gone through.
from_str(toml) ==
  LET keys(k) == {i \in 1..Len(toml) : toml[i].line = k}
      created_at == toml[SetMin(keys("created_at"))]
      deserialized ==
        IF keys("title") = {} \/ keys("created_at") = {} THEN DeserializeError
        ELSE [tag      |-> "Ok",
              preamble |-> [title      |-> toml[SetMin(keys("title"))].title,
                            created_at |-> deserialize_datetime(created_at)]]
  IN  IF \/ \E i \in 1..Len(toml) : toml[i].line \notin {"title", "created_at"}
         \/ Cardinality(keys("title")) > 1
         \/ Cardinality(keys("created_at")) > 1
      THEN DeserializeError
      ELSE IF keys("created_at") # {} /\ MultiplyOverflows(created_at)
      THEN Overflow(deserialized)
      ELSE deserialized

\* A line that is not UTF-8, at which read_line fails with InvalidData, and
\* a fence followed by a space.
InvalidUtf8Line == [line |-> "\\xFF\n"]
FenceWithSpace == [line |-> "--- \n"]

IOError == [tag |-> "IOError"]

\* extract_preamble: the first line is "---\n" (ensure_preamble_fence), the
\* lines up to the first "---" or "---\n" are the TOML
\* (read_until_closing_fence), and the TOML deserializes. A read_line that
\* fails on the way is an IOError; nothing past the closing fence is read.
extract_preamble(text) ==
  IF text # << >> /\ text[1] = InvalidUtf8Line THEN IOError
  ELSE IF text = << >> \/ text[1] # Fence THEN MalformedFence
  ELSE LET closing == {i \in 2..Len(text) : text[i] \in {Fence, FenceAtEof}}
           invalid == {i \in 2..Len(text) : text[i] = InvalidUtf8Line}
       IN  IF closing \cup invalid = {} THEN UnterminatedFence
           ELSE IF SetMin(closing \cup invalid) \in invalid THEN IOError
           ELSE from_str(SubSeq(text, 2, SetMin(closing) - 1))

\* A note as make_note leaves it: the preamble between fences, then a body.
NoteText(preamble) ==
  <<Fence, TitleLine(preamble.title), CreatedAtLine(preamble.created_at), Fence,
    BodyLine>>

CoolNote == [title |-> "my cool note", created_at |-> TestTime]
AwesomeNote == [title |-> "my awesome note", created_at |-> LaterTime]

\* What a file may hold: two notes, and a preamble that does not terminate.
Texts ==
  {NoteText(CoolNote), NoteText(AwesomeNote),
   <<Fence, TitleLine("my awesome note")>>}

Absent == [is |-> "absent"]
Directory == [is |-> "dir"]
RegularFile(text) == [is |-> "file", text |-> text]

FileStates == {Absent, Directory} \cup {RegularFile(text) : text \in Texts}

DailyPaths == {"daily/2015-10-21.txt"}
FilePaths == {"notes/my-cool-note.txt"} \cup DailyPaths \cup NonUtf8Paths

NotePath == "notes/my-cool-note.txt"

\* generate_unclobbered_destination for a preferred name that is taken while
\* no numbered name is: stem-1.ext.
NumberedPath(path) ==
  IF path \in DailyPaths THEN "daily/2015-10-21-1.txt" ELSE "notes/my-cool-note-1.txt"

DailyTree == DailyPaths \cup {NumberedPath(path) : path \in DailyPaths}

AllPaths == FilePaths \cup {NumberedPath(path) : path \in FilePaths}

\* The kind a note is indexed with: Daily under daily/, Note under notes/.
KindOf(path) == IF path \in DailyTree THEN "Daily" ELSE "Note"

\* note_file_paths: what WalkDir lists under notes/ and daily/ that is no
\* directory.
note_file_paths(fs) == {path \in AllPaths : fs[path].is = "file"}

HasPreamble(fs, path) ==
  fs[path].is = "file" /\ extract_preamble(fs[path].text).tag = "Ok"

\* An index_note whose insert leaves a row that is already there as it is.
index_note_keeping_entry(t, fs, path, fault) ==
  IF fault = "open_file" \/ fs[path].is = "absent"
  THEN [tag |-> "OpenError", table |-> t]
  ELSE IF ~HasPreamble(fs, path)
  THEN [tag |-> "PreambleError", table |-> t]
  ELSE IF fault = "insert"
  THEN [tag |-> "IndexError", table |-> t]
  ELSE LET inserted == add_note_or_ignore(t, extract_preamble(fs[path].text).preamble,
                                          KindOf(path), path)
       IN  [tag   |-> IF inserted.ok THEN "Ok" ELSE "IndexError",
            table |-> inserted.table]

\* index_note: File::open, extract_preamble, add_note. `fault` is the step
\* that fails for a reason outside the model, if one does.
index_note(t, fs, path, fault) ==
  IF fault = "open_file" \/ fs[path].is = "absent"
  THEN [tag |-> "OpenError", table |-> t]
  ELSE IF ~HasPreamble(fs, path)
  THEN [tag |-> "PreambleError", table |-> t]
  ELSE IF fault = "insert"
  THEN [tag |-> "IndexError", table |-> t]
  ELSE LET inserted == add_note(t, extract_preamble(fs[path].text).preamble,
                                KindOf(path), path)
       IN  [tag   |-> IF inserted.ok THEN "Ok" ELSE "IndexError",
            table |-> inserted.table]

\* The loop of index_all_notes: index_note on every path, errors warned
\* about and passed over. `failing` are the paths at which `step` fails:
\* opening the file ("open_file") or the INSERT ("insert").
RECURSIVE IndexEach(_, _, _, _, _)
IndexEach(t, fs, paths, failing, step) ==
  IF paths = {} THEN t
  ELSE LET path == CHOOSE q \in paths : TRUE
       IN  IndexEach(
             index_note(t, fs, path, IF path \in failing THEN step ELSE "none").table,
             fs, paths \ {path}, failing, step)

\* What a pass may trip over at single notes: WalkDir cannot read the
\* directory entry, the file does not open, or the INSERT fails.
ItemFaults == {"traverse", "open_file", "insert"}

\* A pass that gives up with an error at the first note it cannot index.
index_all_notes_or_abort(t, fs, fault, failing, step) ==
  IF fault = "reset" THEN [ok |-> FALSE, table |-> t]
  ELSE IF fault = "open" THEN [ok |-> FALSE, table |-> reset(t)]
  ELSE LET paths == note_file_paths(fs) \ (IF step = "traverse" THEN failing ELSE {})
       IN  [ok    |-> \A path \in paths :
                        index_note(EmptyTable, fs, path,
                                   IF path \in failing THEN step ELSE "none").tag = "Ok",
            table |-> IndexEach(reset(t), fs, paths, failing, step)]

\* index_all_notes: reset_index_database, open_index_database, then
\* index_note on each of note_file_paths, which leaves out the entries
\* (`failing`, when step is "traverse") that unpack_walkdir_entry_result
\* turns down. Only a failing reset or open is returned as an error.
index_all_notes(t, fs, fault, failing, step) ==
  IF fault = "reset" THEN [ok |-> FALSE, table |-> t]
  ELSE IF fault = "open" THEN [ok |-> FALSE, table |-> reset(t)]
  ELSE LET paths == note_file_paths(fs) \ (IF step = "traverse" THEN failing ELSE {})
       IN  [ok |-> TRUE, table |-> IndexEach(reset(t), fs, paths, failing, step)]

\* ------------------------------------------------------------------------
\* Operations on the index store (index.rs)
\* ------------------------------------------------------------------------

Utf8Paths == FilePaths \ NonUtf8Paths

\* add_note
AddNote ==
  \E path \in FilePaths, preamble \in Preambles, kind \in NoteKinds :
    LET inserted == add_note(table, preamble, kind, path)
    IN  /\ table' = inserted.table
        /\ last' = [op       |-> "add_note",
                    path     |-> path,
                    note     |-> IndexedNote(preamble, kind),
                    ok       |-> inserted.ok,
                    error    |-> inserted.error,
                    replaced |-> path \in DOMAIN table]
        /\ indexFile' = "present"
        /\ UNCHANGED files
  /\ UNCHANGED <<storeVars, session>>

\* add_note: connection.execute fails (InsertError::DatabaseError).
AddNoteFails ==
  \E path \in Utf8Paths, preamble \in Preambles, kind \in NoteKinds :
    /\ last' = [op       |-> "add_note",
                path     |-> path,
                note     |-> IndexedNote(preamble, kind),
                ok       |-> FALSE,
                error    |-> "DatabaseError",
                replaced |-> FALSE]
    /\ indexFile' = "present"
  /\ UNCHANGED <<files, table>>
  /\ UNCHANGED <<storeVars, session>>

\* all_notes
AllNotes ==
  /\ last' = [op |-> "all_notes", result |-> all_notes(table), fault |-> FALSE]
  /\ indexFile' = "present"
  /\ UNCHANGED <<files, table>>
  /\ UNCHANGED <<storeVars, session>>

\* all_notes: prepare or the query itself fails.
AllNotesFails ==
  /\ last' = [op |-> "all_notes", result |-> LookupError, fault |-> TRUE]
  /\ indexFile' = "present"
  /\ UNCHANGED <<files, table>>
  /\ UNCHANGED <<storeVars, session>>

\* An indexed_notes_with_kind that passes every entry on.
indexed_notes_of_any_kind(t, kind) == all_notes(t)

\* indexed_notes_with_kind: the entries all_notes returns that are of the
\* kind asked for; a failing lookup is returned as it is.
indexed_notes_with_kind(t, kind) ==
  LET looked_up == all_notes(t)
  IN  IF looked_up.tag = "Ok"
      THEN [tag   |-> "Ok",
            notes |-> [path \in {q \in DOMAIN looked_up.notes :
                                   looked_up.notes[q].kind = kind} |->
                         looked_up.notes[path]]]
      ELSE looked_up

\* indexed_notes_with_kind, as `quicknotes open --kind` calls it
IndexedNotesWithKind ==
  \E kind \in NoteKinds :
    /\ last' = [op |-> "indexed_notes_with_kind", kind |-> kind,
                result |-> indexed_notes_with_kind(table, kind)]
    /\ indexFile' = "present"
    /\ UNCHANGED <<files, table>>
  /\ UNCHANGED <<storeVars, session>>

\* delete_note
DeleteNote ==
  \E path \in FilePaths :
    LET deleted == delete_note(table, path)
    IN  /\ table' = deleted.table
        /\ last' = [op      |-> "delete_note",
                    path    |-> path,
                    ok      |-> deleted.ok,
                    fault   |-> FALSE,
                    indexed |-> path \in DOMAIN table]
        /\ indexFile' = "present"
        /\ UNCHANGED files
  /\ UNCHANGED <<storeVars, session>>

\* delete_note: connection.execute fails (DeleteError::DatabaseError).
DeleteNoteFails ==
  \E path \in Utf8Paths :
    /\ last' = [op      |-> "delete_note",
                path    |-> path,
                ok      |-> FALSE,
                fault   |-> TRUE,
                indexed |-> path \in DOMAIN table]
    /\ indexFile' = "present"
  /\ UNCHANGED <<files, table>>
  /\ UNCHANGED <<storeVars, session>>

\* What reset returns for the outcome of its truncating open: NotFound is
\* no error, since there is nothing to reset.
reset_ok_strict(io) == io = "Ok"

reset_ok(io) == IF io = "NotFound" THEN TRUE ELSE io = "Ok"

\* reset: the truncating open empties the store's file, or finds none.
Reset ==
  LET io == IF indexFile = "present" THEN "Ok" ELSE "NotFound"
  IN  /\ table' = reset(table)
      /\ last' = [op |-> "reset", io |-> io, ok |-> reset_ok(io)]
      /\ UNCHANGED <<files, indexFile>>
  /\ UNCHANGED <<storeVars, session>>

\* reset: the truncating open fails with something other than NotFound.
ResetFails ==
  /\ last' = [op |-> "reset", io |-> "Other", ok |-> reset_ok("Other")]
  /\ UNCHANGED <<files, table, indexFile>>
  /\ UNCHANGED <<storeVars, session>>

\* ------------------------------------------------------------------------
\* Schema migrations (index.rs)
\* ------------------------------------------------------------------------

\* A row of the first schema: filepath, title, created_at and
\* utc_offset_seconds, and no kind.
InitialRow(preamble) ==
  [added              |-> [preamble |-> preamble],
   title              |-> TextValue(preamble.title),
   created_at         |-> NumericAffinity(FormatDbDate(preamble.created_at)),
   utc_offset_seconds |-> NumericAffinity(IntegerValue(preamble.created_at.off))]

\* The store as the migrations see it: PRAGMA user_version, and the notes
\* table. No file, or an empty one, is version 0 with no table.
Database(file, t) ==
  IF file = "present" THEN [user_version |-> 2, notes |-> t]
  ELSE IF file = "initial" THEN [user_version |-> 1, notes |-> t]
  ELSE [user_version |-> 0, notes |-> EmptyTable]

\* The first migration: CREATE TABLE notes with four columns.
Migration1(db) == [user_version |-> 1, notes |-> EmptyTable]

\* INSERT INTO notes SELECT * FROM intermediate_notes: a row as
\* SELECT filepath, title, created_at, utc_offset_seconds, 'note' gave it,
\* stored under the affinities of the new table's columns.
WithKindNote(row) ==
  [f \in DOMAIN row \cup {"kind"} |->
     IF f = "kind" THEN TextValue("note")
     ELSE IF f \in {"created_at", "utc_offset_seconds"} THEN NumericAffinity(row[f])
     ELSE row[f]]

\* The second migration: the rows go through a temporary table into a notes
\* table that has the kind column.
Migration2(db) ==
  [user_version |-> 2,
   notes        |-> [path \in DOMAIN db.notes |-> WithKindNote(db.notes[path])]]

\* A to_latest that runs every migration, whatever the version.
to_latest_from_scratch(db) == Migration2(Migration1(db))

\* migrations().to_latest(connection): the migrations past user_version run,
\* in their order.
to_latest(db) ==
  LET first == IF db.user_version < 1 THEN Migration1(db) ELSE db
  IN  IF first.user_version < 2 THEN Migration2(first) ELSE first

\* setup_database in index::open
setup_database(file, t) == to_latest(Database(file, t)).notes

\* What an INSERT that is not add_note's may put into created_at and
\* utc_offset_seconds: "2015-10-21T07:28:00.000", "malformed timestamp",
\* '12345'; 0, 100000, 'abc', '0'.
RawCreatedAt ==
  {[class |-> "text", local |-> TestTime.utc + TestTime.off, width |-> 3, digits |-> 0],
   TextValue("malformed timestamp"),
   TextValue("12345")}

RawOffsets == {IntegerValue(0), IntegerValue(100000), TextValue("abc"), TextValue("0")}

RawKinds == {"note", "journal"}

\* connection.execute("INSERT INTO notes VALUES (..)") as the tests do it: the
\* values go through the column affinities, and the primary key and the
\* CHECK on kind are enforced.
RawInsert ==
  \E path \in Utf8Paths, created_at \in RawCreatedAt, offset \in RawOffsets,
     kind \in RawKinds :
    LET row == [added              |-> [raw |-> TRUE],
                title              |-> TextValue("This note is not valid"),
                created_at         |-> NumericAffinity(created_at),
                utc_offset_seconds |-> NumericAffinity(offset),
                kind               |-> TextValue(kind)]
        accepted == path \notin DOMAIN table /\ CheckKind(row.kind)
    IN  /\ table' = IF accepted THEN Upsert(table, path, row) ELSE table
        /\ last' = [op |-> "insert", path |-> path, ok |-> accepted]
        /\ indexFile' = "present"
        /\ UNCHANGED files
  /\ UNCHANGED <<storeVars, session>>

\* ------------------------------------------------------------------------
\* Indexing the note tree (lib.rs)
\* ------------------------------------------------------------------------

\* index_notes (index_all_notes): reset, open, then index_note on every
\* listed path; only a failing reset or open is an error.
IndexNotes ==
  \E fault \in {"none", "reset", "open"} :
    \E failing \in SUBSET (IF fault = "none" THEN note_file_paths(files) ELSE {}) :
      \E step \in (IF failing = {} THEN {"open_file"} ELSE ItemFaults) :
        LET indexed == index_all_notes(table, files, fault, failing, step)
        IN  /\ table' = indexed.table
            /\ last' = [op      |-> "index_notes",
                        ok      |-> indexed.ok,
                        fault   |-> fault,
                        failing |-> failing,
                        before  |-> DOMAIN table]
            /\ indexFile' = IF fault = "none" THEN "present" ELSE indexFile
            /\ UNCHANGED files
  /\ UNCHANGED <<storeVars, session>>

OpenNoteFaults == {"none", "editor", "open_index", "open_file", "insert", "delete"}

\* An open_note without ensure_note_exists: the editor is handed the path
\* whatever is there, and the path is re-indexed after it.
OpenNoteWithoutLookup ==
  \E path \in FilePaths, text \in Texts, fault \in OpenNoteFaults :
    LET edited  == fault # "editor"
        fs      == IF edited THEN [files EXCEPT ![path] = RegularFile(text)] ELSE files
        indexed == index_note(table, fs, path, fault)
        deleted == IF fault = "delete" THEN [ok |-> FALSE, table |-> table]
                   ELSE delete_note(table, path)
        reindex == edited /\ fault # "open_index"
    IN  /\ fault \in (IF extract_preamble(text).tag = "Ok"
                      THEN OpenNoteFaults \ {"delete"}
                      ELSE OpenNoteFaults \ {"insert"})
        /\ files' = fs
        /\ indexFile' = IF reindex THEN "present" ELSE indexFile
        /\ table' = IF ~reindex THEN table
                    ELSE IF indexed.tag = "PreambleError" THEN deleted.table
                    ELSE indexed.table
        /\ last' = [op      |-> "open_note",
                    path    |-> path,
                    fault   |-> fault,
                    edited  |-> edited,
                    indexed |-> path \in DOMAIN table,
                    ok      |-> reindex /\ indexed.tag \in {"Ok", "PreambleError"}]
  /\ UNCHANGED <<storeVars, session>>

\* open_note (open_existing_note): ensure_note_exists, the editor, then
\* open_existing_note_in_editor's re-index: index_note, and delete_note when
\* the preamble no longer parses; a failing delete is a warning only. A
\* fault is drawn only for a step the call reaches.
OpenNote ==
  \E path \in FilePaths, text \in Texts, fault \in OpenNoteFaults :
    LET exists  == files[path].is = "file"
        edited  == exists /\ fault # "editor"
        fs      == IF edited THEN [files EXCEPT ![path] = RegularFile(text)] ELSE files
        indexed == index_note(table, fs, path, fault)
        deleted == IF fault = "delete" THEN [ok |-> FALSE, table |-> table]
                   ELSE delete_note(table, path)
        reindex == edited /\ fault # "open_index"
        reached == IF ~exists THEN {"none"}
                   ELSE IF extract_preamble(text).tag = "Ok"
                   THEN OpenNoteFaults \ {"delete"}
                   ELSE OpenNoteFaults \ {"insert"}
    IN  /\ fault \in reached
        /\ files' = fs
        /\ indexFile' = IF reindex THEN "present" ELSE indexFile
        /\ table' = IF ~reindex THEN table
                    ELSE IF indexed.tag = "PreambleError" THEN deleted.table
                    ELSE indexed.table
        /\ last' = [op      |-> "open_note",
                    path    |-> path,
                    fault   |-> fault,
                    edited  |-> edited,
                    indexed |-> path \in DOMAIN table,
                    ok      |-> reindex /\ indexed.tag \in {"Ok", "PreambleError"}]
  /\ UNCHANGED <<storeVars, session>>

\* ------------------------------------------------------------------------
\* Making notes and daily notes (lib.rs)
\* ------------------------------------------------------------------------

\* A write_preamble that leaves the staged file empty.
write_nothing(preamble) == [tag |-> "Ok", text |-> << >>]

\* write_preamble: the serialized preamble and "\n\n" go into the staged
\* file, which makes the closing fence a whole line.
write_preamble(preamble) ==
  LET serialized == serialize(preamble)
  IN  IF serialized.tag = "Ok"
      THEN [tag  |-> "Ok",
            text |-> SubSeq(serialized.text, 1, Len(serialized.text) - 1) \o <<Fence>>]
      ELSE serialized

\* What the editor leaves of a text: a body line more ("append"), the
\* first two lines only, a preamble that does not terminate ("break"), or
\* nothing at all ("clear").
Edits == {"append", "break", "clear"}

Edited(text, edit) ==
  IF edit = "append" THEN text \o <<BodyLine>>
  ELSE IF edit = "clear" THEN << >>
  ELSE SubSeq(text, 1, IF Len(text) < 2 THEN Len(text) ELSE 2)

\* The exit status of the editor's process.
ExitStatuses == {0, 1}

\* CommandEditor::edit: Command::new(..).arg(path).spawn()?.wait().map(|_| ()):
\* an error when the process cannot be spawned or waited for; the exit status
\* it ends with is dropped.
CommandEditorEdit(spawned, status) == IF spawned THEN "Ok" ELSE "Err"

\* open_in_editor: the editor's error becomes OpenInEditorError; the step the
\* call fails at is the editor's when edit returned Err.
open_in_editor(fault, status) ==
  IF CommandEditorEdit(fault # "editor", status) = "Err" THEN "editor" ELSE fault

\* The step of make_note_in that fails for a reason outside the model.
MakeNoteFaults ==
  {"none", "tempfile", "write", "editor", "copy_open", "copy", "open_index",
   "open_file", "insert"}

\* store_note_in: the preferred name if create_new finds it free, the
\* numbered name otherwise.
store_note_in(fs, preferred) ==
  IF fs[preferred].is = "absent" THEN preferred ELSE NumberedPath(preferred)

\* A make_note_in that returns the stored path without indexing the note.
make_note_in_unindexed(fs, t, preamble, preferred, edit, fault) ==
  LET written     == write_preamble(preamble)
      actual_destination_path == store_note_in(fs, preferred)
      stored      == [fs EXCEPT ![actual_destination_path] =
                                  RegularFile(Edited(written.text, edit))]
  IN  IF written.tag # "Ok"
      THEN [ok |-> FALSE, path |-> actual_destination_path, files |-> fs,
            table |-> t, opened |-> FALSE]
      ELSE [ok |-> TRUE, path |-> actual_destination_path, files |-> stored,
            table |-> t, opened |-> FALSE]

\* A make_note_in that takes the stored note away again when the index
\* cannot be opened or written.
make_note_in_rolling_back(fs, t, preamble, preferred, edit, fault) ==
  LET written     == write_preamble(preamble)
      actual_destination_path == store_note_in(fs, preferred)
      stored      == [fs EXCEPT ![actual_destination_path] =
                                  RegularFile(Edited(written.text, edit))]
      indexed     == index_note(t, stored, actual_destination_path, fault)
      failed(f)   == [ok |-> FALSE, path |-> actual_destination_path, files |-> f,
                      table |-> t, opened |-> FALSE]
  IN  IF written.tag # "Ok" THEN failed(fs)
      ELSE IF fault \in {"tempfile", "write", "editor", "copy_open"} THEN failed(fs)
      ELSE IF fault = "copy"
      THEN failed([fs EXCEPT ![actual_destination_path] = RegularFile(<< >>)])
      ELSE IF fault = "open_index" THEN failed(fs)
      ELSE [ok     |-> indexed.tag = "Ok",
            path   |-> actual_destination_path,
            files  |-> IF indexed.tag = "Ok" THEN stored ELSE fs,
            table  |-> indexed.table,
            opened |-> TRUE]

\* make_note_in: make_tempfile, write_preamble, open_in_editor,
\* store_note_in, open_index_database, index_note; the first error is
\* returned. A copy that fails leaves an empty file at the actual_destination_path.
make_note_in(fs, t, preamble, preferred, edit, fault) ==
  LET written     == write_preamble(preamble)
      actual_destination_path == store_note_in(fs, preferred)
      stored      == [fs EXCEPT ![actual_destination_path] =
                                  RegularFile(Edited(written.text, edit))]
      indexed     == index_note(t, stored, actual_destination_path, fault)
      failed(f)   == [ok |-> FALSE, path |-> actual_destination_path, files |-> f,
                      table |-> t, opened |-> FALSE]
  IN  IF written.tag # "Ok" THEN failed(fs)
      ELSE IF fault \in {"tempfile", "write", "editor", "copy_open"} THEN failed(fs)
      ELSE IF fault = "copy"
      THEN failed([fs EXCEPT ![actual_destination_path] = RegularFile(<< >>)])
      ELSE IF fault = "open_index" THEN failed(stored)
      ELSE [ok     |-> indexed.tag = "Ok",
            path   |-> actual_destination_path,
            files  |-> stored,
            table  |-> indexed.table,
            opened |-> TRUE]

\* open_existing_note_in_editor: the editor on the file in place, then
\* index_note, and delete_note when the preamble no longer parses.
open_existing_note_in_editor(fs, t, path, edit, fault) ==
  LET edited    == [fs EXCEPT ![path] = RegularFile(Edited(fs[path].text, edit))]
      indexed   == index_note(t, edited, path, fault)
      deleted   == IF fault = "delete" THEN [ok |-> FALSE, table |-> t]
                   ELSE delete_note(t, path)
      failed(f) == [ok |-> FALSE, path |-> path, files |-> f, table |-> t,
                    opened |-> FALSE]
  IN  IF fault = "editor" THEN failed(fs)
      ELSE IF fault = "open_index" THEN failed(edited)
      ELSE [ok     |-> indexed.tag \in {"Ok", "PreambleError"},
            path   |-> path,
            files  |-> edited,
            table  |-> IF indexed.tag = "PreambleError" THEN deleted.table
                       ELSE indexed.table,
            opened |-> TRUE]

\* The steps at which the index fails: open_index_database, and the INSERT.
IndexFaults == {"open_index", "insert"}

\* The index fails a call that has got as far as the index with `text` in its
\* note: it cannot be opened, or the INSERT of a note that parses fails.
IndexFailed(text, fault) ==
  /\ fault \in IndexFaults
  /\ fault = "insert" => extract_preamble(text).tag = "Ok"

\* The same for a note that is being made: the preamble has to serialize for
\* the call to get as far as the editor.
IndexFailedMaking(preamble, edit, fault) ==
  LET written == write_preamble(preamble)
  IN  IF written.tag = "Ok" THEN IndexFailed(Edited(written.text, edit), fault)
      ELSE FALSE

\* ensure_note_exists: fs::metadata, and no directory.
ensure_note_exists(fs, path, fault) ==
  IF fault = "lookup" THEN "PermissionDenied"
  ELSE IF fs[path].is = "absent" THEN "NotFound"
  ELSE IF fs[path].is = "dir" THEN "IsADirectory"
  ELSE "Ok"

\* 2015-10-21T17:28:00-07:00, later on the day of the tests.
EveningTime == [utc |-> TestTime.utc + 36000, nano |-> 0, off |-> TestTime.off]

\* 2015-10-22T00:28:00+10:00
FarEastTime == [utc |-> TestTime.utc, nano |-> 0, off |-> 36000]

DailyTimes == {TestTime, EveningTime}

\* filename_for_date and format("%Y-%m-%d") for the day of DailyTimes.
DateTitle == "2015-10-21"
DailyPath == "daily/2015-10-21.txt"

\* What another process puts at the daily note's name.
ForeignText == <<BodyLine>>

DailyFaults == MakeNoteFaults \cup {"lookup", "delete"}

\* A make_or_open_daily that makes a note whether or not one is there.
make_daily(fs, t, creation_time, edit, fault, raced) ==
  make_note_in(fs, t, [title |-> DateTitle, created_at |-> creation_time], DailyPath,
               edit, fault)

\* make_or_open_daily: ensure_note_exists on daily/<date>.<ext>; the note
\* that is there is opened in the editor, and otherwise make_note_in makes
\* one. `raced`: another process creates the file after the lookup has
\* answered NotFound.
make_or_open_daily(fs, t, creation_time, edit, fault, raced) ==
  LET found == ensure_note_exists(fs, DailyPath, fault)
      now   == IF raced THEN [fs EXCEPT ![DailyPath] = RegularFile(ForeignText)] ELSE fs
  IN  IF found = "Ok"
      THEN open_existing_note_in_editor(fs, t, DailyPath, edit, fault)
      ELSE IF found = "NotFound"
      THEN make_note_in(now, t, [title |-> DateTitle, created_at |-> creation_time],
                        DailyPath, edit, fault)
      ELSE [ok |-> FALSE, path |-> DailyPath, files |-> fs, table |-> t,
            opened |-> FALSE]

MakeTimes == {TestTime, FarEastTime}

\* make_note for "my cool note", as long as its numbered name is free.
MakeNote ==
  \E creation_time \in MakeTimes, edit \in Edits, fault \in MakeNoteFaults,
     status \in ExitStatuses :
    LET made == make_note_in(files, table,
                             [title |-> "my cool note", created_at |-> creation_time],
                             NotePath, edit, open_in_editor(fault, status))
    IN  /\ files[NumberedPath(NotePath)].is = "absent"
        /\ files' = made.files
        /\ table' = made.table
        /\ indexFile' = IF made.opened THEN "present" ELSE indexFile
        /\ last' = [op |-> "make_note", ok |-> made.ok, path |-> made.path,
                    exit |-> status,
                    index_failed |->
                      IndexFailedMaking([title |-> "my cool note",
                                         created_at |-> creation_time],
                                        edit, open_in_editor(fault, status))]
  /\ UNCHANGED <<storeVars, session>>

\* make_or_open_daily, as long as the note has room for a line and its
\* numbered name is free.
MakeOrOpenDaily ==
  \E creation_time \in DailyTimes, edit \in Edits, fault \in DailyFaults,
     raced \in BOOLEAN :
    LET found == ensure_note_exists(files, DailyPath, fault)
        made  == make_or_open_daily(files, table, creation_time, edit, fault, raced)
    IN  /\ files[NumberedPath(DailyPath)].is = "absent"
        /\ raced => found = "NotFound"
        /\ found = "Ok" => Len(files[DailyPath].text) < MaxNoteLines
        /\ files' = made.files
        /\ table' = made.table
        /\ indexFile' = IF made.opened THEN "present" ELSE indexFile
        /\ last' = [op |-> "make_or_open_daily", ok |-> made.ok, path |-> made.path,
                    found |-> found, raced |-> raced,
                    index_failed |->
                      IF found = "Ok"
                      THEN IndexFailed(Edited(files[DailyPath].text, edit), fault)
                      ELSE IF found = "NotFound"
                      THEN IndexFailedMaking([title |-> DateTitle,
                                              created_at |-> creation_time],
                                             edit, fault)
                      ELSE FALSE]
  /\ UNCHANGED <<storeVars, session>>

\* ------------------------------------------------------------------------
\* make_note, make_or_open_daily and open_note, step by step (lib.rs)
\* ------------------------------------------------------------------------

\* No library call is under way, and no connection to the index is held.
IdleSession ==
  [phase |-> "idle", op |-> "none", path |-> "none", in_place |-> FALSE,
   staged |-> << >>, connection |-> "closed"]

\* A call that edits the note at `path` where it is.
EditingInPlace(op, path) ==
  [phase |-> "editor", op |-> op, path |-> path, in_place |-> TRUE,
   staged |-> << >>, connection |-> "closed"]

\* A call that edits a staged file holding `text`, to be stored at `path`.
EditingStaged(op, path, text) ==
  [phase |-> "editor", op |-> op, path |-> path, in_place |-> FALSE,
   staged |-> text, connection |-> "closed"]

\* A make_note_in that opens the index before it starts the editor.
BeginMakeNoteIndexFirst ==
  /\ session.phase = "idle"
  /\ files[NumberedPath(NotePath)].is = "absent"
  /\ session' = [EditingStaged("make_note", NotePath, write_preamble(CoolNote).text)
                   EXCEPT !.connection = "open"]
  /\ UNCHANGED <<files, table, indexFile, last>>
  /\ UNCHANGED storeVars

\* make_note, make_note_in up to the editor: make_tempfile and
\* write_preamble; the editor is about to run on the staged file.
BeginMakeNote ==
  /\ session.phase = "idle"
  /\ files[NumberedPath(NotePath)].is = "absent"
  /\ session' = EditingStaged("make_note", NotePath, write_preamble(CoolNote).text)
  /\ UNCHANGED <<files, table, indexFile, last>>
  /\ UNCHANGED storeVars

\* make_or_open_daily up to the editor: ensure_note_exists, and then the
\* note that is there is edited in place, or one is staged as in make_note.
BeginMakeOrOpenDaily ==
  /\ session.phase = "idle"
  /\ files[NumberedPath(DailyPath)].is = "absent"
  /\ IF ensure_note_exists(files, DailyPath, "none") = "Ok"
     THEN /\ Len(files[DailyPath].text) < MaxNoteLines
          /\ session' = EditingInPlace("make_or_open_daily", DailyPath)
     ELSE session' = EditingStaged("make_or_open_daily", DailyPath,
                                   write_preamble([title |-> DateTitle,
                                                   created_at |-> TestTime]).text)
  /\ UNCHANGED <<files, table, indexFile, last>>
  /\ UNCHANGED storeVars

\* open_note, open_existing_note up to the editor: ensure_note_exists.
BeginOpenNote ==
  /\ session.phase = "idle"
  /\ \E path \in {NotePath, DailyPath} :
       /\ ensure_note_exists(files, path, "none") = "Ok"
       /\ Len(files[path].text) < MaxNoteLines
       /\ session' = EditingInPlace("open_note", path)
  /\ UNCHANGED <<files, table, indexFile, last>>
  /\ UNCHANGED storeVars

\* open_in_editor returns Ok: the editor has run on the path it was given.
EditorReturns ==
  /\ session.phase = "editor"
  /\ \E edit \in Edits :
       IF session.in_place
       THEN /\ files' = [files EXCEPT ![session.path] =
                           RegularFile(Edited(files[session.path].text, edit))]
            /\ session' = [session EXCEPT !.phase = "edited"]
       ELSE /\ files' = files
            /\ session' = [session EXCEPT !.phase = "edited",
                                          !.staged = Edited(@, edit)]
  /\ UNCHANGED <<table, indexFile, last>>
  /\ UNCHANGED storeVars

\* open_in_editor returns Err: the call returns it.
EditorFails ==
  /\ session.phase = "editor"
  /\ session' = IdleSession
  /\ UNCHANGED <<files, table, indexFile, last>>
  /\ UNCHANGED storeVars

\* store_note_in in make_note_in: the staged file goes to its destination.
StoreStaged ==
  /\ session.phase = "edited"
  /\ ~session.in_place
  /\ LET actual_destination_path == store_note_in(files, session.path)
     IN  /\ files' = [files EXCEPT ![actual_destination_path] =
                        RegularFile(session.staged)]
         /\ session' = [session EXCEPT !.phase = "stored",
                                       !.path = actual_destination_path]
  /\ UNCHANGED <<table, indexFile, last>>
  /\ UNCHANGED storeVars

\* The call has come to its open_index_database.
AtOpenIndexDatabase ==
  session.phase = (IF session.in_place THEN "edited" ELSE "stored")

\* open_index_database returns the connection.
OpenIndexDatabase ==
  /\ AtOpenIndexDatabase
  /\ session' = [session EXCEPT !.phase = "index", !.connection = "open"]
  /\ indexFile' = "present"
  /\ UNCHANGED <<files, table, last>>
  /\ UNCHANGED storeVars

\* open_index_database returns Err: the call returns it.
OpenIndexDatabaseFails ==
  /\ AtOpenIndexDatabase
  /\ session' = IdleSession
  /\ UNCHANGED <<files, table, indexFile, last>>
  /\ UNCHANGED storeVars

\* index_note on the connection, and in open_existing_note_in_editor the
\* delete_note of a note that no longer parses; the call returns and the
\* connection is dropped with it.
IndexAndReturn ==
  /\ session.phase = "index"
  /\ LET indexed == index_note(table, files, session.path, "none")
     IN  table' = IF indexed.tag = "PreambleError" /\ session.in_place
                  THEN delete_note(table, session.path).table
                  ELSE indexed.table
  /\ session' = IdleSession
  /\ UNCHANGED <<files, indexFile, last>>
  /\ UNCHANGED storeVars

\* index::open: Connection::open, then setup_database.
IndexOpen ==
  /\ table' = setup_database(indexFile, table)
  /\ indexFile' = "present"
  /\ last' = [op |-> "index_open", from |-> indexFile, before |-> table]
  /\ UNCHANGED files
  /\ UNCHANGED <<storeVars, session>>

\* ------------------------------------------------------------------------
\* index_notes a step at a time, and interrupted (lib.rs)
\* ------------------------------------------------------------------------

\* The process was killed during an earlier index_notes.
InterruptedSession == [IdleSession EXCEPT !.phase = "interrupted"]

\* Where index_all_notes is: after reset_index_database ("reset"), or in the
\* loop ("scan") with the connection open, `todo` the paths still to come
\* and `failed` the paths whose index_note returned an error.
Rebuilding(phase, todo, failed, recovering) ==
  [phase      |-> phase,
   op         |-> "index_notes",
   path       |-> "none",
   in_place   |-> FALSE,
   staged     |-> << >>,
   connection |-> IF phase = "scan" THEN "open" ELSE "closed",
   todo       |-> todo,
   failed     |-> failed,
   recovering |-> recovering]

\* An index_all_notes that goes on from the rows it finds.
BeginIndexNotesResuming ==
  /\ session.phase \in {"idle", "interrupted"}
  /\ session' = Rebuilding("reset", {}, {}, session.phase = "interrupted")
  /\ last' = [op |-> "index_notes_step"]
  /\ UNCHANGED <<files, table, indexFile>>
  /\ UNCHANGED storeVars

\* index_all_notes, its first statement: reset_index_database.
BeginIndexNotes ==
  /\ session.phase \in {"idle", "interrupted"}
  /\ table' = reset(table)
  /\ session' = Rebuilding("reset", {}, {}, session.phase = "interrupted")
  /\ last' = [op |-> "index_notes_step"]
  /\ UNCHANGED <<files, indexFile>>
  /\ UNCHANGED storeVars

\* reset_index_database fails and index_all_notes returns its error.
BeginIndexNotesFails ==
  /\ session.phase \in {"idle", "interrupted"}
  /\ session' = IdleSession
  /\ last' = [op |-> "index_notes_returned", ok |-> FALSE, failing |-> {},
              recovering |-> session.phase = "interrupted"]
  /\ UNCHANGED <<files, table, indexFile>>
  /\ UNCHANGED storeVars

\* open_index_database after the reset: the migrations run on the emptied
\* store, and note_file_paths lists the tree.
OpenForScan ==
  /\ session.phase = "reset"
  /\ table' = setup_database(indexFile, table)
  /\ indexFile' = "present"
  /\ session' = Rebuilding("scan", note_file_paths(files), {}, session.recovering)
  /\ last' = [op |-> "index_notes_step"]
  /\ UNCHANGED files
  /\ UNCHANGED storeVars

\* open_index_database fails and index_all_notes returns its error.
OpenForScanFails ==
  /\ session.phase = "reset"
  /\ session' = IdleSession
  /\ last' = [op |-> "index_notes_returned", ok |-> FALSE, failing |-> {},
              recovering |-> session.recovering]
  /\ UNCHANGED <<files, table, indexFile>>
  /\ UNCHANGED storeVars

\* One turn of the loop: index_note on the next path, its error warned
\* about and passed over.
IndexNextNote ==
  /\ session.phase = "scan"
  /\ \E path \in session.todo, fault \in {"none", "open_file", "insert"} :
       LET indexed == index_note(table, files, path, fault)
       IN  /\ table' = indexed.table
           /\ session' = Rebuilding("scan", session.todo \ {path},
                                    IF indexed.tag = "Ok" THEN session.failed
                                    ELSE session.failed \cup {path},
                                    session.recovering)
  /\ last' = [op |-> "index_notes_step"]
  /\ UNCHANGED <<files, indexFile>>
  /\ UNCHANGED storeVars

\* The loop is through and index_all_notes returns Ok(()).
FinishIndexNotes ==
  /\ session.phase = "scan"
  /\ session.todo = {}
  /\ session' = IdleSession
  /\ last' = [op |-> "index_notes_returned", ok |-> TRUE, failing |-> session.failed,
              recovering |-> session.recovering]
  /\ UNCHANGED <<files, table, indexFile>>
  /\ UNCHANGED storeVars

\* The process is killed between two statements of index_all_notes: the
\* rows whose INSERT was through stay in the store's file.
Interrupt ==
  /\ session.phase \in {"reset", "scan"}
  /\ session' = InterruptedSession
  /\ last' = [op |-> "interrupted"]
  /\ UNCHANGED <<files, table, indexFile>>
  /\ UNCHANGED storeVars

\* The process is killed inside open_index_database, between the two
\* migrations.
InterruptMigrations ==
  /\ session.phase = "reset"
  /\ indexFile # "present"
  /\ table' = Migration1(Database(indexFile, table)).notes
  /\ indexFile' = "initial"
  /\ session' = InterruptedSession
  /\ last' = [op |-> "interrupted"]
  /\ UNCHANGED files
  /\ UNCHANGED storeVars

\* Files appear, change and go away while no index_notes is running.
FilesChangeBetweenRuns ==
  /\ session.phase \in {"idle", "interrupted"}
  /\ \E path \in FilePaths, state \in FileStates :
       files' = [files EXCEPT ![path] = state]
  /\ last' = [op |-> "fs"]
  /\ UNCHANGED <<table, indexFile, session>>
  /\ UNCHANGED storeVars

\* Files appear, change and go away outside the program.
FileSystemChange ==
  \E path \in FilePaths, state \in FileStates :
    /\ files' = [files EXCEPT ![path] = state]
    /\ last' = [op |-> "fs"]
    /\ UNCHANGED <<table, indexFile>>
  /\ UNCHANGED <<storeVars, session>>

\* ------------------------------------------------------------------------
\* The preamble codec on its own (note.rs)
\* ------------------------------------------------------------------------

\* Offsets east of UTC, in seconds: -07:00, Z, +01:00, +05:30, +09:06,
\* +10:00, -10:00, and +01:30:30 and -01:30:30, which are not whole minutes.
CodecOffsets == {-25200, 0, 3600, 19800, 32760, 36000, -36000, 5430, -5430}

CodecTimes ==
  [utc : {TestTime.utc, LaterTime.utc}, nano : {0, 500000000}, off : CodecOffsets]

CodecPreambles == [title : Titles, created_at : CodecTimes]

\* Preamble::serialize on the preamble at hand.
Serialize ==
  /\ last.op = "preamble"
  /\ last' = [op |-> "serialize", preamble |-> last.preamble,
              out |-> serialize(last.preamble)]
  /\ UNCHANGED <<files, table, indexFile>>
  /\ UNCHANGED <<storeVars, session>>

\* extract_preamble on what serialize returned.
Extract ==
  /\ last.op = "serialize"
  /\ last.out.tag = "Ok"
  /\ last' = [op |-> "extract", preamble |-> last.preamble,
              out |-> extract_preamble(last.out.text)]
  /\ UNCHANGED <<files, table, indexFile>>
  /\ UNCHANGED <<storeVars, session>>

\* 2015-10-21T07:28:00+10:00
TenHoursEast == [utc |-> 1445376480, nano |-> 0, off |-> 36000]

\* The lines a stream handed to extract_preamble is made of.
StreamLines ==
  {Fence, FenceWithSpace, TitleLine("my cool note"), CreatedAtLine(TestTime),
   CreatedAtLine(TenHoursEast), BodyLine, InvalidUtf8Line}

RECURSIVE SeqsUpTo(_, _)
SeqsUpTo(S, n) ==
  IF n = 0 THEN {<< >>}
  ELSE LET shorter == SeqsUpTo(S, n - 1)
       IN  shorter \cup {Append(q, x) : q \in shorter, x \in S}

\* Streams of up to MaxStreamLines lines; only the last line of a stream
\* can lack its newline.
Streams ==
  LET whole == SeqsUpTo(StreamLines, MaxStreamLines)
  IN  whole \cup {Append(q, FenceAtEof) : q \in SeqsUpTo(StreamLines, MaxStreamLines - 1)}

\* extract_preamble on a stream, in a build with or without overflow checks.
ExtractStream ==
  /\ last.op = "stream"
  /\ \E overflow_checks \in BOOLEAN :
       last' = [op |-> "extract_stream", stream |-> last.stream,
                out |-> Built(extract_preamble(last.stream), overflow_checks)]
  /\ UNCHANGED <<files, table, indexFile>>
  /\ UNCHANGED <<storeVars, session>>

\* ------------------------------------------------------------------------
\* The numbering scan on its own (storage.rs)
\* ------------------------------------------------------------------------

\* stem-K.ext with K = u32::MAX, and with K an Arabic-Indic digit.
U32MaxName == Stem \o <<"-">> \o U32MaxDigits \o <<".">> \o Extension
UnicodeDigitName == Stem \o <<"-", "U+0663", ".">> \o Extension

\* The names a listed directory may hold.
ListedNames ==
  {PreferredName, NumberedName(1), NumberedName(7), DecoyName, OverflowName,
   U32MaxName, UnicodeDigitName}

ReadDirError == [tag |-> "ReadDirError"]

\* find_next_destination_basename on a listed directory, in a build with or
\* without overflow checks.
FindNextDestinationBasename ==
  /\ last.op = "listing"
  /\ \E overflow_checks \in BOOLEAN :
       last' = [op |-> "find_next", names |-> last.names,
                out |-> Built(find_next_destination_basename(last.names, Stem, Extension),
                              overflow_checks)]
  /\ UNCHANGED <<files, table, indexFile>>
  /\ UNCHANGED <<storeVars, session>>

\* fs::read_dir, or an entry of it, fails: ReadDirError.
FindNextDestinationBasenameFails ==
  /\ last.op = "listing"
  /\ last' = [op |-> "find_next", names |-> last.names, out |-> ReadDirError]
  /\ UNCHANGED <<files, table, indexFile>>
  /\ UNCHANGED <<storeVars, session>>

\* ------------------------------------------------------------------------
\* The file stem of a title, and the destination made of it (note.rs,
\* storage.rs)
\* ------------------------------------------------------------------------

\* The characters of a title: ASCII letters of both cases, a digit, the
\* space, ASCII punctuation, and letters outside ASCII.
AsciiAlphanumeric == {"A", "a", "7"}
AsciiChars == AsciiAlphanumeric \cup {" ", "/", ".", "-"}
TitleChars == AsciiChars \cup {"É", "é"}

\* char::to_lowercase
LowerChar(c) == IF c = "A" THEN "a" ELSE IF c = "É" THEN "é" ELSE c

\* str::to_lowercase
to_lowercase(str) == [i \in 1..Len(str) |-> LowerChar(str[i])]

\* str::split(' '): the pieces between the spaces, empty ones included.
RECURSIVE split(_)
split(str) ==
  LET spaces == {i \in 1..Len(str) : str[i] = " "}
  IN  IF spaces = {} THEN <<str>>
      ELSE <<SubSeq(str, 1, SetMin(spaces) - 1)>>
             \o split(SubSeq(str, SetMin(spaces) + 1, Len(str)))

\* remove_specials: the characters that are not ASCII, or are ASCII
\* alphanumeric, are kept.
KeptChar(c) == c \notin AsciiChars \/ c \in AsciiAlphanumeric
remove_specials(str) == SelectSeq(str, KeptChar)

\* Itertools::join("-")
RECURSIVE join(_)
join(pieces) ==
  IF Len(pieces) = 0 THEN << >>
  ELSE IF Len(pieces) = 1 THEN pieces[1]
  ELSE pieces[1] \o <<"-">> \o join(Tail(pieces))

\* filename_stem_for_title
filename_stem_for_title(title) ==
  LET pieces == split(to_lowercase(title))
  IN  join([i \in 1..Len(pieces) |-> remove_specials(pieces[i])])

\* The notes directory, a directory of one component under the root.
NotesDirectory == <<"/", "d">>

\* Path::join: a separator and the joined path; joining the empty path
\* leaves the separator at the end.
PathJoin(path, joined) == path \o <<"/">> \o joined

\* Path::file_name: the last component, which a trailing separator does not
\* end.
TrimSeparator(path) ==
  IF Len(path) > 1 /\ path[Len(path)] = "/" THEN SubSeq(path, 1, Len(path) - 1) ELSE path

\* Path::with_extension on a path whose file name has no '.': the path is
\* cut at the end of its file name and ".extension" is put there.
with_extension(path, extension) == TrimSeparator(path) \o <<".">> \o extension

\* StoreNoteIn::do_store, the first destination.
FirstDestination(storage_directory, preferred_file_stem, file_extension) ==
  with_extension(PathJoin(storage_directory, preferred_file_stem), file_extension)

\* Path::parent of a path of more than one component.
PathParent(path) ==
  LET separators == {i \in 1..Len(path) : path[i] = "/"}
  IN  IF SetMax(separators) = 1 THEN <<"/">> ELSE SubSeq(path, 1, SetMax(separators) - 1)

\* The stem of a title, and where StoreNoteIn first tries to store a note
\* of that stem in the notes directory.
FilenameStemForTitle ==
  /\ last.op = "title"
  /\ last' = [op          |-> "stem",
              title       |-> last.title,
              stem        |-> filename_stem_for_title(last.title),
              destination |-> FirstDestination(NotesDirectory,
                                               filename_stem_for_title(last.title),
                                               Extension)]
  /\ UNCHANGED <<files, table, indexFile>>
  /\ UNCHANGED <<storeVars, session>>

\* ------------------------------------------------------------------------
\* Store calls: where they start
\* ------------------------------------------------------------------------

Strategies == {"StoreNoteAt", "StoreNoteIn"}

Calls == [strategy : Strategies, gated : BOOLEAN, against : {Baseline}]

IdleCall == [strategy |-> "StoreNoteIn", gated |-> FALSE, against |-> Baseline]

StagedFile(bytes) ==
  [bytes |-> bytes, cursor |-> 0, path |-> "temp", keep_error |-> "none",
   inode |-> "same"]

\* What an editor leaves at the staged path: the content, and whether it is
\* still the file that was staged or a new file renamed over it.
EditorOutcomes == [content : StagedContents, inode : {"same", "new"}]

\* TempFileHandle::open: File::open(&temppath) opens the file that is at the
\* path now, whichever inode that is, with the reader at its first byte.
TempFileHandleOpen(at_path) ==
  [StagedFile(at_path.content) EXCEPT !.inode = at_path.inode]

\* The caller of store and store_if_different opens the handle on the staged
\* path once the editor has returned.
StagedAfterEditor(outcome) == TempFileHandleOpen(outcome)

\* An empty note tree, and no index store yet: index::open creates it.
IndexInit ==
  /\ files = [path \in AllPaths |-> Absent]
  /\ table = EmptyTable
  /\ indexFile = "absent"
  /\ last = [op |-> "open"]
  /\ session = IdleSession

\* One process calls store or store_if_different; the other stays idle.
StoreInit ==
  /\ dir \in InitDirs(SeedNames)
  /\ \E c \in Calls, outcome \in EditorOutcomes :
       /\ call = [p \in Procs |-> IF p = 1 THEN c ELSE IdleCall]
       /\ pc = [p \in Procs |->
                  IF p = 1 THEN (IF c.gated THEN "check" ELSE "copy") ELSE "idle"]
       /\ tempfile = [p \in Procs |->
                        IF p = 1 THEN StagedAfterEditor(outcome)
                                 ELSE StagedFile(<< >>)]
  /\ destination = [p \in Procs |-> PreferredName]
  /\ pending = [p \in Procs |-> NoError]
  /\ result = [p \in Procs |-> Pending]
  /\ stderr = [p \in Procs |-> << >>]
  /\ collisions = [p \in Procs |-> 0]
  /\ envCreates = 0
  /\ IndexInit

\* Two processes call StoreNoteIn.store with the same directory, stem and
\* extension, each with its own staged content.
RaceInit ==
  /\ dir \in InitDirs(RaceSeedNames)
  /\ call = [p \in Procs |-> [strategy |-> "StoreNoteIn", gated |-> FALSE,
                              against |-> Baseline]]
  /\ pc = [p \in Procs |-> "copy"]
  /\ tempfile = [p \in Procs |-> StagedFile(IF p = 1 THEN <<"a">> ELSE <<"b">>)]
  /\ destination = [p \in Procs |-> PreferredName]
  /\ pending = [p \in Procs |-> NoError]
  /\ result = [p \in Procs |-> Pending]
  /\ stderr = [p \in Procs |-> << >>]
  /\ collisions = [p \in Procs |-> 0]
  /\ envCreates = 0
  /\ IndexInit

\* No store call is under way.
StoreIdle ==
  /\ dir = [n \in {} |-> ForeignFile]
  /\ call = [p \in Procs |-> IdleCall]
  /\ pc = [p \in Procs |-> "idle"]
  /\ tempfile = [p \in Procs |-> StagedFile(<< >>)]
  /\ destination = [p \in Procs |-> PreferredName]
  /\ pending = [p \in Procs |-> NoError]
  /\ result = [p \in Procs |-> Pending]
  /\ stderr = [p \in Procs |-> << >>]
  /\ collisions = [p \in Procs |-> 0]
  /\ envCreates = 0

QuietInit == StoreIdle /\ IndexInit

StoreStep(p) ==
  \/ IsDifferent(p)
  \/ CopyOpen(p)
  \/ CopyWrite(p)
  \/ GenerateUnclobberedDestination(p)

StoreFault(p) ==
  \/ IsDifferentFails(p)
  \/ CopyOpenFails(p)
  \/ CopyWriteFails(p)
  \/ GenerateUnclobberedDestinationFails(p)

Preserve(p) ==
  \/ TryPreserveNoteKeep(p)
  \/ TryPreserveNoteKeepFails(p)
  \/ TryPreserveNoteRead(p)
  \/ TryPreserveNoteReadFails(p)

vars == <<storeVars, indexVars>>

Next ==
  \/ \E p \in Procs : StoreStep(p) \/ StoreFault(p) \/ Preserve(p)
  \/ EnvCreate

Spec == StoreInit /\ [][Next]_vars

\* One process calls store or store_if_different on a directory that holds
\* some of the preferred name, its first numbered name, and a numbered name
\* past u32::MAX.
LiveInit ==
  /\ dir \in InitDirs(RaceSeedNames)
  /\ \E c \in Calls, b \in {<<"a">>, <<"a", "b">>} :
       /\ call = [p \in Procs |-> IF p = 1 THEN c ELSE IdleCall]
       /\ pc = [p \in Procs |->
                  IF p = 1 THEN (IF c.gated THEN "check" ELSE "copy") ELSE "idle"]
       /\ tempfile = [p \in Procs |-> StagedFile(IF p = 1 THEN b ELSE << >>)]
  /\ destination = [p \in Procs |-> PreferredName]
  /\ pending = [p \in Procs |-> NoError]
  /\ result = [p \in Procs |-> Pending]
  /\ stderr = [p \in Procs |-> << >>]
  /\ collisions = [p \in Procs |-> 0]
  /\ envCreates = 0
  /\ IndexInit

\* A store call that has not returned takes its next step: the thread that
\* runs it is scheduled, and each of its system calls returns.
LiveSpec ==
  /\ LiveInit
  /\ [][Next]_vars
  /\ WF_vars(\E p \in Procs : StoreStep(p) \/ StoreFault(p) \/ Preserve(p))

RaceNext ==
  \/ \E p \in Procs : CopyOpen(p) \/ CopyWrite(p) \/ GenerateUnclobberedDestination(p)
  \/ EnvCreate

RaceSpec == RaceInit /\ [][RaceNext]_vars

\* The operations of the index store, and rows written past add_note.
IndexNext ==
  \/ AddNote
  \/ AddNoteFails
  \/ AllNotes
  \/ AllNotesFails
  \/ IndexedNotesWithKind
  \/ DeleteNote
  \/ DeleteNoteFails
  \/ Reset
  \/ ResetFails
  \/ RawInsert

IndexSpec == QuietInit /\ [][IndexNext]_vars

\* Indexing and editing the note tree while files come and go.
NotesNext ==
  \/ IndexNotes
  \/ OpenNote
  \/ FileSystemChange

NotesSpec == QuietInit /\ [][NotesNext]_vars

\* index_notes a step at a time, killed at any point and run again, with
\* the files changing between the runs.
RebuildNext ==
  \/ BeginIndexNotes
  \/ BeginIndexNotesFails
  \/ OpenForScan
  \/ OpenForScanFails
  \/ IndexNextNote
  \/ FinishIndexNotes
  \/ Interrupt
  \/ InterruptMigrations
  \/ FilesChangeBetweenRuns

RebuildSpec == QuietInit /\ [][RebuildNext]_vars

\* Making notes and editing them.
EditNext ==
  \/ MakeNote
  \/ OpenNote

EditSpec == QuietInit /\ [][EditNext]_vars

\* Making notes and daily notes and re-indexing them, nothing else touching
\* the tree but the process that races make_or_open_daily.
DailyNext ==
  \/ MakeNote
  \/ MakeOrOpenDaily
  \/ IndexNotes
  \/ AllNotes
  \/ AllNotesFails

DailySpec == QuietInit /\ [][DailyNext]_vars

\* The three calls that run an editor, a step at a time.
SessionNext ==
  \/ BeginMakeNote
  \/ BeginMakeOrOpenDaily
  \/ BeginOpenNote
  \/ EditorReturns
  \/ EditorFails
  \/ StoreStaged
  \/ OpenIndexDatabase
  \/ OpenIndexDatabaseFails
  \/ IndexAndReturn

SessionSpec == QuietInit /\ [][SessionNext]_vars

\* The tables a store's file may hold: none when there is no file, rows of
\* the first schema, or rows of the latest.
StoredTables(file) ==
  IF file = "absent" THEN {EmptyTable}
  ELSE LET rows == IF file = "initial"
                   THEN {InitialRow(preamble) : preamble \in Preambles}
                   ELSE {NoteRow(preamble, kind) : preamble \in Preambles,
                                                   kind \in NoteKinds}
       IN  UNION {[paths -> rows] : paths \in SUBSET Utf8Paths}

\* A store as an earlier run, of this version or of the first, left it.
MigrateInit ==
  /\ StoreIdle
  /\ files = [path \in AllPaths |-> Absent]
  /\ indexFile \in {"absent", "initial", "present"}
  /\ table \in StoredTables(indexFile)
  /\ last = [op |-> "stored"]
  /\ session = IdleSession

MigrateNext == IndexOpen

MigrateSpec == MigrateInit /\ [][MigrateNext]_vars

\* A directory listing, and the numbered name found for it.
ScanInit ==
  /\ StoreIdle
  /\ files = [path \in AllPaths |-> Absent]
  /\ table = EmptyTable
  /\ indexFile = "absent"
  /\ last \in {[op |-> "listing", names |-> names] : names \in SUBSET ListedNames}
  /\ session = IdleSession

ScanNext ==
  \/ FindNextDestinationBasename
  \/ FindNextDestinationBasenameFails

ScanSpec == ScanInit /\ [][ScanNext]_vars

\* A title of up to MaxTitleLen characters.
TitleInit ==
  /\ StoreIdle
  /\ files = [path \in AllPaths |-> Absent]
  /\ table = EmptyTable
  /\ indexFile = "absent"
  /\ last \in {[op |-> "title", title |-> title] : title \in SeqsUpTo(TitleChars, MaxTitleLen)}
  /\ session = IdleSession

TitleNext == FilenameStemForTitle

TitleSpec == TitleInit /\ [][TitleNext]_vars

\* A preamble, serialized and read back.
CodecInit ==
  /\ StoreIdle
  /\ files = [path \in AllPaths |-> Absent]
  /\ table = EmptyTable
  /\ indexFile = "absent"
  /\ last \in {[op |-> "preamble", preamble |-> preamble] : preamble \in CodecPreambles}
              \cup {[op |-> "stream", stream |-> stream] : stream \in Streams}
  /\ session = IdleSession

CodecNext ==
  \/ Serialize
  \/ Extract
  \/ ExtractStream

CodecSpec == CodecInit /\ [][CodecNext]_vars

\* ------------------------------------------------------------------------
\* Claims about the store calls
\* ------------------------------------------------------------------------

Finished(p) == pc[p] = "done"

\* C1 (no clobber): no step of any store call, of either strategy, under any
\* interleaving with processes that create files, removes a file or changes
\* the bytes of a file that exists; the one write a call makes goes into the
\* file that call itself has just created with create_new.
NoClobber ==
  [][\A n \in DOMAIN dir :
       /\ n \in DOMAIN dir'
       /\ \/ dir'[n] = dir[n]
          \/ \E p \in Procs :
               /\ pc[p] = "write"
               /\ destination[p] = n
               /\ dir[n].by = p
               /\ dir[n].bytes = << >>
               /\ dir'[n].by = p]_vars

\* A StoreNoteIn call found its name taken, stored the note under another
\* name, and the file that was in its way is as it was.
NoClobberWitness ==
  \E p \in Procs :
    /\ Finished(p)
    /\ result[p].tag = "Ok"
    /\ collisions[p] > 0
    /\ Exists(dir, PreferredName)
    /\ dir[PreferredName] = ForeignFile
    /\ result[p].path # PreferredName

Kept(p) == tempfile[p].path = "kept"
Emitted(p) == stderr[p] = <<tempfile[p].bytes>>
NoteLost(p) == result[p].tag = "TryPreserveNoteError"

\* C2 (staged content is never discarded on a failure path): whenever
\* StoreNoteAt.store, StoreNoteIn.store or store_if_different has returned an
\* error, the staged file was kept as a permanent file, or its content was
\* printed to the error stream, or the error is the note-lost error.
StagedNeverDiscarded ==
  \A p \in Procs :
    (Finished(p) /\ IsError(result[p]))
      => (Kept(p) \/ Emitted(p) \/ NoteLost(p))

\* A call failed, keep failed too, and the content went to the error stream.
StagedNeverDiscardedWitness ==
  \E p \in Procs :
    /\ Finished(p)
    /\ result[p] = NoteClobberPreventionError
    /\ ~Kept(p)
    /\ Emitted(p)

\* The K of a name that is exactly stem-K.ext, K in ASCII digits; NoCapture
\* for every other name.
ExactSuffix(name) ==
  LET head == Stem \o <<"-">>
      tail == <<".">> \o Extension
      n    == Len(name) - Len(head) - Len(tail)
  IN  IF /\ n >= 1
         /\ SubSeq(name, 1, Len(head)) = head
         /\ SubSeq(name, Len(name) - Len(tail) + 1, Len(name)) = tail
         /\ \A k \in 1..n : name[Len(head) + k] \in Digit
      THEN SubSeq(name, Len(head) + 1, Len(head) + n)
      ELSE NoCapture

\* The names of d that are exactly stem-K.ext with K small enough to count.
ExactNumbers(names) ==
  {ParseU32(ExactSuffix(nm)) :
     nm \in {x \in names : ExactSuffix(x) # NoCapture /\ ParsesAsU32(ExactSuffix(x))}}

\* C3 (StoreIn numbering): when dir/stem.ext exists and no other process
\* creates files meanwhile, StoreNoteIn stores the note at dir/stem-N.ext
\* with N = 1 + the largest K such that a file named exactly stem-K.ext is
\* in dir (N = 1 without any); other names do not influence N.
StoreInNumbering ==
  \A p \in Procs :
    (/\ Finished(p)
     /\ call[p].strategy = "StoreNoteIn"
     /\ result[p].tag = "Ok"
     /\ collisions[p] > 0
     /\ envCreates = 0)
      => result[p].path =
           NumberedName(1 + SetMax(ExactNumbers(DOMAIN dir \ {result[p].path}) \cup {0}))

\* What C3 says, kept to directories in which only exactly numbered names
\* match the pattern at all; on those the code agrees with it.
StoreInNumbersExactNames ==
  \A p \in Procs :
    (/\ Finished(p)
     /\ call[p].strategy = "StoreNoteIn"
     /\ result[p].tag = "Ok"
     /\ collisions[p] > 0
     /\ envCreates = 0
     /\ DecoyName \notin DOMAIN dir)
      => result[p].path =
           NumberedName(1 + SetMax(ExactNumbers(DOMAIN dir \ {result[p].path}) \cup {0}))

AtCollision(p) ==
  /\ Finished(p)
  /\ call[p].strategy = "StoreNoteAt"
  /\ collisions[p] > 0

OriginalIntact(p) ==
  /\ Exists(dir, destination[p])
  /\ dir[destination[p]] = ForeignFile

RaceBothSucceed ==
  (\A p \in Procs : Finished(p))
    => /\ \A p \in Procs :
            /\ result[p].tag = "Ok"
            /\ Exists(dir, result[p].path)
            /\ dir[result[p].path].bytes = tempfile[p].bytes
       /\ \A p, q \in Procs : p # q => result[p].path # result[q].path

\* The same on directories in which every numbered name parses: there the
\* two calls always succeed.
RaceBothSucceedParsable ==
  OverflowName \notin DOMAIN dir => RaceBothSucceed

\* Both calls found the preferred name taken and each stored its own note.
RaceBothSucceedWitness ==
  /\ \A p \in Procs : Finished(p) /\ collisions[p] > 0 /\ result[p].tag = "Ok"
  /\ result[1].path # result[2].path

CreatedBy(p) == {n \in DOMAIN dir : dir[n].by = p}

GatedDone(p) == Finished(p) /\ call[p].gated

\* C8 as stated (content-diff gate): store_if_different returns no path and
\* creates no file when the staged content is byte-identical to the
\* baseline, and returns a path whenever it differs.
ContentDiffGate ==
  \A p \in Procs :
    GatedDone(p)
      => IF tempfile[p].bytes = call[p].against
         THEN result[p].tag # "Ok" /\ CreatedBy(p) = {}
         ELSE result[p].tag = "Ok"

\* C8 as amended: no path and no file when the content is byte-identical to
\* the baseline; when it differs the call never answers "nothing to store",
\* and a path it returns is that of a file it created holding exactly the
\* staged content.
ContentDiffGateCommits ==
  \A p \in Procs :
    GatedDone(p)
      => IF tempfile[p].bytes = call[p].against
         THEN result[p].tag # "Ok" /\ CreatedBy(p) = {}
         ELSE /\ result[p] # OkNone
              /\ result[p].tag = "Ok"
                   => /\ Exists(dir, result[p].path)
                      /\ dir[result[p].path] = [bytes |-> tempfile[p].bytes, by |-> p]

\* A staged note one byte off the baseline went through the gate and was
\* stored.
ContentDiffGateWitness ==
  \E p \in Procs :
    /\ GatedDone(p)
    /\ tempfile[p].bytes = <<"b">>
    /\ call[p].against = <<"a">>
    /\ result[p].tag = "Ok"

\* ------------------------------------------------------------------------
\* Claims about the index
\* ------------------------------------------------------------------------

\* What indexed_notes returns now.
Indexed == all_notes(table)

ParseableFiles == {path \in AllPaths : HasPreamble(files, path)}

PreambleOf(path) == extract_preamble(files[path].text).preamble

IndexedExactly(paths) ==
  /\ Indexed.tag = "Ok"
  /\ DOMAIN Indexed.notes = paths
  /\ \A path \in paths : Indexed.notes[path].preamble = PreambleOf(path)

\* C6 as stated: after index_notes returns Ok, the indexed paths are exactly
\* the non-directory files under notes/ and daily/ that have a parseable
\* preamble, each mapped to the preamble in its file.
IndexNotesExact ==
  (last.op = "index_notes" /\ last.ok) => IndexedExactly(ParseableFiles)

\* C6 as amended: after index_notes returns Ok, the indexed paths are exactly
\* the non-directory files under notes/ and daily/ that have a parseable
\* preamble and a UTF-8 path and whose open and insert did not fail during
\* the pass, each mapped to the preamble in its file; nothing else is
\* indexed, so an entry whose file was deleted is gone.
IndexNotesBestEffort ==
  (last.op = "index_notes" /\ last.ok)
    => IndexedExactly((ParseableFiles \cap Utf8Paths) \ last.failing)

\* A pass came back Ok, dropped the entry of a file that is gone and kept
\* another.
IndexNotesWitness ==
  /\ last.op = "index_notes"
  /\ last.ok
  /\ last.failing = {}
  /\ \E path \in last.before : files[path] = Absent /\ path \notin DOMAIN table
  /\ DOMAIN table # {}

\* open_note has just edited the indexed note at last'.path into a file
\* whose preamble does not parse.
EditedToUnparseable ==
  /\ last'.op = "open_note"
  /\ last'.edited
  /\ last'.path \in DOMAIN table
  /\ ~HasPreamble(files', last'.path)

\* C7 as stated: when open_note edits an indexed note so that its preamble
\* no longer parses, it returns Ok, the entry of that path is removed and
\* every other entry is unchanged.
OpenNoteRemovesStaleEntry ==
  [][EditedToUnparseable
       => (last'.ok /\ table' = Without(table, last'.path))]_vars

\* C7 as amended: when open_note edits an indexed note so that its preamble
\* no longer parses, every other entry is unchanged, and: open_note returns
\* Ok and the entry of that path is removed or, when the delete fails, is
\* left stale; or, when the index or the edited file cannot be opened,
\* open_note returns the error and the index is unchanged.
OpenNoteRemovesOrWarns ==
  [][EditedToUnparseable
       => IF last'.fault \in {"open_index", "open_file"}
          THEN ~last'.ok /\ table' = table
          ELSE /\ last'.ok
               /\ table' = IF last'.fault = "delete" THEN table
                           ELSE Without(table, last'.path)]_vars

\* An indexed note was edited into an unterminated preamble, open_note
\* returned Ok, its entry is gone and another entry is still there.
OpenNoteWitness ==
  /\ last.op = "open_note"
  /\ last.ok
  /\ last.indexed
  /\ last.fault = "none"
  /\ ~HasPreamble(files, last.path)
  /\ last.path \notin DOMAIN table
  /\ DOMAIN table # {}

Raw == [raw |-> TRUE]

\* Every row is one add_note wrote.
AllAdded == \A path \in DOMAIN table : table[path].added # Raw

\* Per stored path, the note of the latest add_note for it.
LatestAdds == [path \in DOMAIN table |-> table[path].added]

\* C9 (last-write-wins upsert): in an index written by add operations only,
\* all() has exactly one entry per added path, equal to the note (title,
\* timestamp, UTC offset, kind) of the most recent add for that path.
LastWriteWins ==
  AllAdded
    => /\ all_notes(table) = [tag |-> "Ok", notes |-> LatestAdds]
       /\ (last.op = "add_note" /\ last.ok)
            => /\ last.path \in DOMAIN table
               /\ LatestAdds[last.path] = last.note
       /\ (last.op = "all_notes" /\ ~last.fault)
            => last.result = [tag |-> "Ok", notes |-> LatestAdds]

\* A path that was in the index was added again, beside another path.
LastWriteWinsWitness ==
  /\ AllAdded
  /\ last.op = "add_note"
  /\ last.ok
  /\ last.replaced
  /\ Cardinality(DOMAIN table) = 2

ValidRows == {path \in DOMAIN table : unpack_row(table[path]).tag = "Ok"}

\* C10 (all() tolerates corrupt rows): a query that the database itself does
\* not fail succeeds; a row whose timestamp, UTC offset or kind does not
\* parse is absent from the result, and every valid row is in it.
ToleratesCorruptRows ==
  (last.op = "all_notes" /\ ~last.fault)
    => /\ last.result.tag = "Ok"
       /\ last.result.notes = [path \in ValidRows |-> unpack_row(table[path]).note]

\* With every value stored in the class its column is read as, rows that do
\* not parse are skipped and the rest returned.
SkipsUnparseableRows ==
  (/\ last.op = "all_notes"
   /\ ~last.fault
   /\ \A path \in DOMAIN table : unpack_row(table[path]) # DatabaseFailure)
    => /\ last.result.tag = "Ok"
       /\ last.result.notes = [path \in ValidRows |-> unpack_row(table[path]).note]
       /\ \A path \in ValidRows :
            table[path].added # Raw => last.result.notes[path] = table[path].added

\* C11 as stated: delete(path) succeeds whether or not path is indexed, and
\* leaves the index equal to the prior index with path removed (the entry of
\* path absent, every other entry unchanged); deleting twice has the same
\* effect as deleting once.
DeleteAlwaysSucceeds ==
  [][last'.op = "delete_note"
       => /\ last'.ok
          /\ table' = Without(table, last'.path)
          /\ delete_note(table', last'.path).table = table']_vars

\* C11 as amended: delete(path) for a path that is valid UTF-8 succeeds
\* whether or not path is indexed, unless the DELETE statement itself fails;
\* a delete that succeeds leaves the index equal to the prior index with
\* path removed, and deleting again changes nothing; a delete that fails
\* (a path that is not UTF-8, or a database error) leaves the index as it
\* was.
DeleteRemovesOnlyPath ==
  [][last'.op = "delete_note"
       => /\ last'.ok <=> (last'.path \in Utf8Paths /\ ~last'.fault)
          /\ table' = IF last'.ok THEN Without(table, last'.path) ELSE table
          /\ last'.ok => /\ last'.path \notin DOMAIN table'
                         /\ delete_note(table', last'.path).table = table']_vars

\* An indexed path was deleted and another entry is still there.
DeleteWitness ==
  /\ last.op = "delete_note"
  /\ last.ok
  /\ last.indexed
  /\ last.path \notin DOMAIN table
  /\ DOMAIN table # {}

\* C12: a reset that returns success leaves the store with no entries, so
\* that all() finds none; a reset that finds no store file (NotFound)
\* returns success; a reset whose open fails in any other way returns an
\* error.
ResetEmptiesOrFails ==
  last.op = "reset"
    => /\ last.ok => all_notes(table) = [tag |-> "Ok", notes |-> EmptyTable]
       /\ last.io = "NotFound" => last.ok
       /\ last.io = "Other" => ~last.ok

\* A reset on a store that does not exist yet has returned success.
ResetWitness ==
  /\ last.op = "reset"
  /\ last.io = "NotFound"
  /\ last.ok
  /\ indexFile = "absent"

\* C13 as stated: for every title and every timestamp with a fixed UTC
\* offset, serialize succeeds, and extract of what it returned succeeds and
\* gives back the same title, instant and offset.
PreambleRoundTrip ==
  /\ last.op = "serialize" => last.out.tag = "Ok"
  /\ last.op = "extract" => last.out = [tag |-> "Ok", preamble |-> last.preamble]

\* What does hold: a timestamp whose offset is a whole number of minutes
\* and fits 16 bits as seconds goes through the round trip unchanged.
PreambleRoundTripWithinI16 ==
  LET off == last.preamble.created_at.off
  IN  last.op \in {"serialize", "extract"} /\ FitsI16(off) /\ off % 60 = 0
        => /\ last.op = "serialize" => last.out.tag = "Ok"
           /\ last.op = "extract" => last.out = [tag |-> "Ok", preamble |-> last.preamble]

KeepFailed(p) == tempfile[p].keep_error \in IoErrors

\* C14: preservation is a strict chain. The staged file is kept first, and
\* when it was kept nothing is printed; its content is printed to the error
\* stream only when keep has failed; the note-lost error is returned only
\* when keep and the read have both failed, nothing was printed, and it
\* carries the error keep returned and the read's error; and a call that
\* returns its own error after try_preserve_note returned Ok has kept the
\* file or printed its content.
PreservationChain ==
  \A p \in Procs :
    /\ Kept(p) => ~KeepFailed(p) /\ stderr[p] = << >>
    /\ stderr[p] # << >> => KeepFailed(p) /\ Emitted(p)
    /\ (Finished(p) /\ NoteLost(p))
         => /\ KeepFailed(p)
            /\ stderr[p] = << >>
            /\ result[p].keep_error = tempfile[p].keep_error
            /\ result[p].read_error \in IoErrors
    /\ (Finished(p) /\ IsError(result[p]) /\ ~NoteLost(p))
         => /\ Kept(p) \/ Emitted(p)
            /\ result[p] = pending[p]

\* keep failed with one error, the read with another, and the note-lost
\* error that came back names both.
PreservationChainWitness ==
  \E p \in Procs :
    /\ Finished(p)
    /\ result[p] = TryPreserveNoteError("PermissionDenied", "NotFound")
    /\ ~Kept(p)
    /\ stderr[p] = << >>

\* C15: when the reset and the open of the index succeed, index_notes
\* returns Ok whatever goes wrong at single notes (an entry that cannot be
\* traversed, a file that does not open, a preamble that does not parse, an
\* INSERT that fails), and every other file with a valid preamble is in the
\* index afterwards, with the preamble in the file.
IndexNotesToleratesFailures ==
  (last.op = "index_notes" /\ last.fault = "none")
    => /\ last.ok
       /\ Indexed.tag = "Ok"
       /\ \A path \in (ParseableFiles \cap Utf8Paths) \ last.failing :
            /\ path \in DOMAIN Indexed.notes
            /\ Indexed.notes[path].preamble = PreambleOf(path)

\* A pass came back Ok although one note failed by a fault and another file
\* could not be indexed as it is, and a third note is in the index.
IndexNotesToleratesWitness ==
  /\ last.op = "index_notes"
  /\ last.ok
  /\ last.failing # {}
  /\ \E path \in FilePaths \ last.failing :
       files[path].is = "file" /\ path \notin DOMAIN table
  /\ DOMAIN table # {}

\* The entry of `path` after a step is the preamble its file holds after
\* the step, and the step has left every other row of the index alone.
EntryFollowsFile(path) ==
  /\ all_notes(table').tag = "Ok"
  /\ path \in DOMAIN all_notes(table').notes
  /\ all_notes(table').notes[path].preamble = extract_preamble(files'[path].text).preamble
  /\ DOMAIN table' \ {path} = DOMAIN table \ {path}
  /\ \A other \in DOMAIN table \ {path} : table'[other] = table[other]

\* C16: when make_note has returned the path it stored the note at, and
\* when open_note has returned Ok for a note whose preamble is valid after
\* the edit, the index entry of that path is the preamble now in the file,
\* and the other entries are as they were.
IndexFollowsEdits ==
  [][/\ (last'.op = "make_note" /\ last'.ok) => EntryFollowsFile(last'.path)
     /\ (last'.op = "open_note" /\ last'.ok /\ HasPreamble(files', last'.path))
          => EntryFollowsFile(last'.path)]_vars

\* make_note has stored and indexed a note at a numbered name, and open_note
\* has since edited the first note into another valid preamble.
IndexFollowsEditsWitness ==
  /\ last.op = "open_note"
  /\ last.ok
  /\ last.path = NotePath
  /\ HasPreamble(files, NotePath)
  /\ PreambleOf(NotePath) = AwesomeNote
  /\ NumberedPath(NotePath) \in DOMAIN table
  /\ Indexed.notes[NotePath].preamble = AwesomeNote

KindIn(path) == Indexed.notes[path].kind

WithKindIsAllOfKind ==
  last.op = "indexed_notes_with_kind"
    => IF Indexed.tag = "Ok"
       THEN /\ last.result.tag = "Ok"
            /\ DOMAIN last.result.notes =
                 {path \in DOMAIN Indexed.notes : Indexed.notes[path].kind = last.kind}
            /\ \A path \in DOMAIN last.result.notes :
                 last.result.notes[path] = Indexed.notes[path]
       ELSE last.result = Indexed

\* The daily notes were asked for, one came back, and a note of the other
\* kind that is in the index did not.
WithKindWitness ==
  /\ last.op = "indexed_notes_with_kind"
  /\ last.kind = "Daily"
  /\ last.result.tag = "Ok"
  /\ DOMAIN last.result.notes # {}
  /\ \E path \in DOMAIN Indexed.notes : Indexed.notes[path].kind = "Note"

\* C19: make_or_open_daily on a date whose daily note is there edits that
\* file in place: the path it returns is daily/<date>.<ext>, the file is
\* still there, as the editor left it, and no other file of the tree,
\* numbered or not, is made or changed.
DailyOpensInPlace ==
  [][(last'.op = "make_or_open_daily" /\ files[DailyPath].is = "file")
       => /\ last'.ok => last'.path = DailyPath
          /\ files'[DailyPath] \in
               {files[DailyPath]} \cup
               {RegularFile(Edited(files[DailyPath].text, edit)) : edit \in Edits}
          /\ \A path \in AllPaths \ {DailyPath} : files'[path] = files[path]]_vars

\* The second call for the day has added its line to the note the first
\* call made, and no numbered note is there.
DailyOpensInPlaceWitness ==
  /\ last.op = "make_or_open_daily"
  /\ last.ok
  /\ last.found = "Ok"
  /\ last.path = DailyPath
  /\ files[DailyPath] =
       RegularFile(NoteText([title |-> DateTitle, created_at |-> TestTime]) \o <<BodyLine>>)
  /\ files[NumberedPath(DailyPath)] = Absent

\* C20 as stated: the daily note of a date is stored at daily/<date>.<ext>
\* only: make_or_open_daily never creates a numbered name such as
\* daily/<date>-1.<ext> and never returns one, also when another process
\* creates daily/<date>.<ext> between the lookup and the store.
DailyOnlyAtDatedName ==
  /\ files[NumberedPath(DailyPath)].is = "absent"
  /\ (last.op = "make_or_open_daily" /\ last.ok) => last.path = DailyPath

NonZeroExitCommitsNothing ==
  [][(last'.op = "make_note" /\ last'.exit # 0)
       => (files' = files /\ table' = table)]_vars

Creating ==
  IF last.op = "make_note" THEN TRUE
  ELSE IF last.op = "make_or_open_daily" THEN last.found = "NotFound"
  ELSE FALSE

BeginsWithFence(text) == Len(text) > 0 /\ text[1] = Fence

CommittedBeginsWithFence ==
  (Creating /\ files[last.path].is = "file")
    => BeginsWithFence(files[last.path].text)

\* C24, as the code has it: the staged file holds the preamble, well formed,
\* when the editor starts, and a note that make_note or make_or_open_daily
\* has created and returned success for begins with a well-formed preamble.
CommittedOkHasPreamble ==
  /\ \A title \in {"my cool note", DateTitle}, creation_time \in MakeTimes \cup DailyTimes :
       LET preamble == [title |-> title, created_at |-> creation_time]
           written  == write_preamble(preamble)
       IN  written.tag = "Ok"
             => /\ BeginsWithFence(written.text)
                /\ extract_preamble(written.text) = [tag |-> "Ok", preamble |-> preamble]
  /\ (Creating /\ last.ok)
       => /\ HasPreamble(files, last.path)
          /\ BeginsWithFence(files[last.path].text)

\* make_note returned success for a note the editor added a line to.
CommittedOkHasPreambleWitness ==
  /\ last.op = "make_note"
  /\ last.ok
  /\ HasPreamble(files, last.path)
  /\ files[last.path].text[Len(files[last.path].text)] = BodyLine

\* ---------------------------------------------------------------------
\* C25. StoreNoteAt never redirects: it tries one exclusive create, at its
\* destination; a success returns that very destination; when the
\* destination is taken it runs the preservation of the staged file and
\* fails, without a second attempt and without a file under another name.
StoreAtNeverRedirects ==
  \A p \in Procs :
    (call[p].strategy = "StoreNoteAt" /\ pc[p] # "idle")
      => /\ destination[p] = PreferredName
         /\ pc[p] # "scan"
         /\ collisions[p] + Cardinality(CreatedBy(p)) <= 1
         /\ CreatedBy(p) \subseteq {PreferredName}
         /\ (Finished(p) /\ result[p].tag = "Ok") => result[p] = OkPath(PreferredName)
         /\ collisions[p] = 1
              => /\ pc[p] \in {"keep", "read", "done"}
                 /\ pending[p] = CopyError("AlreadyExists")
                 /\ Finished(p)
                      => /\ IsError(result[p])
                         /\ Kept(p) \/ Emitted(p) \/ NoteLost(p)

\* StoreNoteAt found its destination taken and returned its error with the
\* staged file kept, the directory holding nothing of its making.
StoreAtNeverRedirectsWitness ==
  /\ Finished(1)
  /\ call[1].strategy = "StoreNoteAt"
  /\ collisions[1] = 1
  /\ result[1] = CopyError("AlreadyExists")
  /\ CreatedBy(1) = {}
  /\ Kept(1)
  /\ envCreates > 0

\* ---------------------------------------------------------------------
\* C26. StoreNoteIn.store terminates by returning: with a successful store,
\* with a copy error that is no collision, or with the clobber-prevention
\* error of a failed directory scan; and as long as no other process has
\* created a file during the call, one retry after the first collision is
\* all it takes.
Returned(p) == Finished(p) /\ result[p] # Panicked

StoreInReturns ==
  /\ <>Returned(1)
  /\ [](call[1].strategy = "StoreNoteIn" /\ envCreates = 0 => collisions[1] <= 1)

\* The same on directories in which every numbered name parses as a u32.
StoreInReturnsParsable ==
  (OverflowName \notin DOMAIN dir)
    => /\ <>Returned(1)
       /\ [](call[1].strategy = "StoreNoteIn" /\ envCreates = 0 => collisions[1] <= 1)
       /\ [](call[1].strategy = "StoreNoteIn" /\ Finished(1)
              => result[1].tag \in {"Ok", "OkNone", "CopyError", "CheckFileError",
                                    "NoteClobberPreventionError", "TryPreserveNoteError"})

\* ---------------------------------------------------------------------
\* C27. The index store is never open while the editor runs: make_note,
\* make_or_open_daily and open_note hold a connection only from their
\* open_index_database, which comes after the editor has returned, to
\* their return.
IndexClosedWhileEditing ==
  /\ session.phase = "editor" => session.connection = "closed"
  /\ session.connection = "open" => session.phase = "index"

\* make_note holds the connection it opened after the editor returned and
\* the note was stored.
IndexClosedWhileEditingWitness ==
  /\ session.op = "make_note"
  /\ session.phase = "index"
  /\ session.connection = "open"
  /\ files[session.path] = RegularFile(session.staged)

\* ---------------------------------------------------------------------
\* C28. The migrations run in order and only once: opening a store that is
\* at the latest schema changes no row, opening it again changes nothing,
\* and opening a store at the first schema gives every row it held the kind
\* Note and keeps its filepath, title, created_at and utc_offset_seconds.
MigrationsOrderedIdempotent ==
  last.op = "index_open"
    => /\ indexFile = "present"
       /\ setup_database(indexFile, table) = table
       /\ last.from = "present" => table = last.before
       /\ last.from = "absent" => table = EmptyTable
       /\ last.from = "initial"
            => /\ DOMAIN table = DOMAIN last.before
               /\ \A path \in DOMAIN table :
                    /\ try_from_sql_enum(table[path].kind.s) = [ok |-> TRUE, kind |-> "Note"]
                    /\ \A column \in {"title", "created_at", "utc_offset_seconds"} :
                         table[path][column] = last.before[path][column]

\* A store of the first schema that held a daily note and a titled note has
\* been opened.
MigrationsWitness ==
  /\ last.op = "index_open"
  /\ last.from = "initial"
  /\ DOMAIN last.before = Utf8Paths
  /\ \A path \in Utf8Paths : table[path].kind = TextValue("note")

\* ---------------------------------------------------------------------
\* C29. add_note fails with BadPath for a path that is no text, and with
\* DatabaseError for every other failure of the store; either way the index
\* holds what it held.
AddFailureKeepsIndex ==
  [][last'.op = "add_note"
       => /\ last'.path \in NonUtf8Paths <=> last'.error = "BadPath"
          /\ last'.ok <=> last'.error = "none"
          /\ ~last'.ok => /\ last'.error \in {"BadPath", "DatabaseError"}
                          /\ table' = table]_vars

\* add_note has failed with BadPath on an index that holds a note.
AddFailureWitness ==
  /\ last.op = "add_note"
  /\ last.error = "BadPath"
  /\ table # EmptyTable

SchemaOk(block) ==
  /\ \A i \in 1..Len(block) : block[i].line \in {"title", "created_at"}
  /\ Cardinality({i \in 1..Len(block) : block[i].line = "title"}) = 1
  /\ Cardinality({i \in 1..Len(block) : block[i].line = "created_at"}) = 1

\* The preamble a block spells out: its title, and the instant and offset
\* its created_at line denotes.
Written(block) ==
  LET title == block[SetMin({i \in 1..Len(block) : block[i].line = "title"})]
      created_at == block[SetMin({i \in 1..Len(block) : block[i].line = "created_at"})]
  IN  [title      |-> title.title,
       created_at |-> [utc  |-> created_at.local - created_at.minutes * 60,
                       nano |-> created_at.nanosecond,
                       off  |-> created_at.minutes * 60]]

\* The classification of a stream: the opening fence is the line "---\n".
Classified(stream) ==
  LET closing == {i \in 2..Len(stream) : stream[i] \in {Fence, FenceAtEof}}
      block == SubSeq(stream, 2, SetMin(closing) - 1)
  IN  IF stream = << >> \/ stream[1] # Fence THEN MalformedFence
      ELSE IF closing = {} THEN UnterminatedFence
      ELSE IF ~SchemaOk(block) THEN DeserializeError
      ELSE [tag |-> "Ok", preamble |-> Written(block)]

\* The lines extract_preamble reads: the first line, and after an opening
\* fence the lines up to the closing fence or the end of the stream.
ReadLines(stream) ==
  LET closing == {i \in 2..Len(stream) : stream[i] \in {Fence, FenceAtEof}}
  IN  IF stream = << >> THEN << >>
      ELSE IF stream[1] # Fence THEN <<stream[1]>>
      ELSE IF closing = {} THEN stream
      ELSE SubSeq(stream, 1, SetMin(closing))

Utf8AsRead(stream) ==
  \A i \in 1..Len(ReadLines(stream)) : ReadLines(stream)[i] # InvalidUtf8Line

\* C31: on a stream that can be read, extract fails with MalformedFence
\* unless the first line of the stream is exactly the fence marker, with
\* UnterminatedFence when the stream ends before a second bare fence line,
\* with DeserializeError when the block between the fences violates the
\* schema, and otherwise returns the preamble the block spells out, whatever
\* follows the closing fence.
ExtractClassifies ==
  (last.op = "extract_stream" /\ Utf8AsRead(last.stream))
    => last.out = Classified(last.stream)

\* What does hold: the same for the streams whose created_at lines that are
\* read all have an offset that fits 16 bits as seconds.
ExtractClassifiesWithinI16 ==
  LET read == ReadLines(last.stream)
  IN  (/\ last.op = "extract_stream"
       /\ Utf8AsRead(last.stream)
       /\ \A i \in 1..Len(read) :
            read[i].line = "created_at" => FitsI16(read[i].minutes * 60))
        => last.out = Classified(last.stream)

\* ------------------------------------------------------------------------
\* Claims about Preamble::serialize
\* ------------------------------------------------------------------------

\* A fixed offset chrono can hold: less than a day either way.
ValidOffset(off) == off > -86400 /\ off < 86400

\* The created_at line of a serialized preamble.
EmittedCreatedAt(out) == out.text[3]

\* C32: for every timestamp with an in-range date and a valid fixed UTC
\* offset, serialize succeeds and emits the offset as minutes, the offset in
\* seconds divided by 60.
SerializeInRangeSucceeds ==
  (last.op = "serialize" /\ ValidOffset(last.preamble.created_at.off))
    => /\ last.out.tag = "Ok"
       /\ EmittedCreatedAt(last.out).line = "created_at"
       /\ EmittedCreatedAt(last.out).minutes
            = Quotient(last.preamble.created_at.off, 60)

\* What does hold: the same for the offsets that fit 16 bits as seconds,
\* and SerializeError for the others.
SerializeWithinI16 ==
  last.op = "serialize"
    => IF FitsI16(last.preamble.created_at.off)
       THEN /\ last.out.tag = "Ok"
            /\ EmittedCreatedAt(last.out).line = "created_at"
            /\ EmittedCreatedAt(last.out).minutes
                 = Quotient(last.preamble.created_at.off, 60)
       ELSE last.out = SerializeError

\* ------------------------------------------------------------------------
\* Claims about an interrupted index_notes
\* ------------------------------------------------------------------------

\* index_notes has returned Ok after an earlier run was interrupted.
Recovered == last.op = "index_notes_returned" /\ last.ok /\ last.recovering

\* C33 as stated: an interruption of index_notes and the steps of index_notes
\* change no note file, and a complete run after an interrupted one leaves
\* an index that holds exactly the note files on disk that have a preamble,
\* each with the preamble in its file.
RebuildExactAfterInterrupt ==
  Recovered => IndexedExactly(ParseableFiles)

\* C33 as amended: an interruption of index_notes and the steps of
\* index_notes change no note file, and a complete run after an interrupted
\* one leaves, whatever the interrupted run left in the store, exactly the
\* entries of the note files that have a parseable preamble and a UTF-8 path
\* and whose open and insert did not fail during that run, each with the
\* preamble in its file.
RebuildCrashSafe ==
  [][/\ last'.op \in {"index_notes_step", "index_notes_returned", "interrupted"}
          => files' = files
     /\ Recovered' => (IndexedExactly((ParseableFiles \cap Utf8Paths) \ last.failing))'
    ]_vars

\* A complete run after an interrupted one has returned, with the note
\* indexed and no file at the daily note's path.
RebuildCrashSafeWitness ==
  /\ Recovered
  /\ last.failing = {}
  /\ DOMAIN table = {NotePath}
  /\ files[DailyPath] = Absent

\* ------------------------------------------------------------------------
\* Claims about the errors of a store call
\* ------------------------------------------------------------------------

\* The errors of do_store that name `src`, the path of the staged file, as
\* the place where the note still exists.
NamesRescueLocation(r) == r.tag \in {"CopyError", "NoteClobberPreventionError"}

\* C34: when a store call returns an error other than the note-lost error,
\* a file holding the staged content exists at the rescue location the
\* error reports, which is the path of the staged file.
StoreErrorRescueExists ==
  \A p \in Procs :
    (Finished(p) /\ NamesRescueLocation(result[p])) => Kept(p)

\* What does hold: the file is at the reported location whenever keep() did
\* not fail; when it failed the content was printed and the file is gone.
StoreErrorRescueExistsUnlessKeepFailed ==
  \A p \in Procs :
    (Finished(p) /\ NamesRescueLocation(result[p]))
      => IF KeepFailed(p)
         THEN tempfile[p].path = "removed" /\ Emitted(p)
         ELSE Kept(p)

\* ------------------------------------------------------------------------
\* Claims about the names StoreNoteIn returns
\* ------------------------------------------------------------------------

\* stem.ext, or stem-N.ext with N >= 1 in decimal digits.
StemOrNumbered(name) ==
  \/ name = PreferredName
  \/ /\ ExactSuffix(name) # NoCapture
     /\ StripZeros(ExactSuffix(name)) # <<"0">>

\* C35: every path StoreNoteIn.store returns has the basename stem.ext or
\* stem-N.ext for the requested stem and some N >= 1, also when the call
\* collided more than once.
StoreInBasename ==
  \A p \in Procs :
    (Finished(p) /\ call[p].strategy = "StoreNoteIn" /\ result[p].tag = "Ok")
      => StemOrNumbered(result[p].path)

\* What does hold: the same for the calls that collided at most once.
StoreInBasenameOneCollision ==
  \A p \in Procs :
    (/\ Finished(p)
     /\ call[p].strategy = "StoreNoteIn"
     /\ result[p].tag = "Ok"
     /\ collisions[p] <= 1)
      => StemOrNumbered(result[p].path)

\* ------------------------------------------------------------------------
\* Claims about what a failed store leaves in the directory
\* ------------------------------------------------------------------------

\* The call returned an error, the note-lost error included.
Failed(p) == Finished(p) /\ (IsError(result[p]) \/ NoteLost(p))

\* C36: when StoreNoteAt.store or StoreNoteIn.store has returned an error,
\* no file that the call created is in the destination directory.
FailedStoreLeavesNothing ==
  \A p \in Procs : Failed(p) => CreatedBy(p) = {}

IsPrefix(a, b) == Len(a) <= Len(b) /\ a = SubSeq(b, 1, Len(a))

\* What does hold: a failed call leaves at most one file of its own, at the
\* destination it last tried, holding a prefix of the staged content; and
\* none when the error is that of the exclusive create or of the scan.
FailedStoreLeavesAtMostPartial ==
  \A p \in Procs :
    Failed(p)
      => /\ CreatedBy(p) \subseteq {destination[p]}
         /\ \A n \in CreatedBy(p) : IsPrefix(dir[n].bytes, tempfile[p].bytes)
         /\ pending[p] \in {CopyError("AlreadyExists"), NoteClobberPreventionError,
                            CheckFileError}
              => CreatedBy(p) = {}

\* ------------------------------------------------------------------------
\* Claims about the entry open_note leaves
\* ------------------------------------------------------------------------

OpenNoteOk == last.op = "open_note" /\ last.ok

\* The entry of the path is the preamble now in its file.
EntryAgrees(path) ==
  /\ HasPreamble(files, path)
  /\ Indexed.tag = "Ok"
  /\ path \in DOMAIN Indexed.notes
  /\ Indexed.notes[path].preamble = PreambleOf(path)

\* C37 as stated: when open_note has returned Ok for a path, the index
\* entry of that path is the preamble now in the file, or there is none.
OpenNoteOkEntryAgrees ==
  OpenNoteOk => (last.path \notin DOMAIN table \/ EntryAgrees(last.path))

\* C37 as amended: when open_note has returned Ok for a path, the index
\* entry of that path is the preamble now in the file, or there is none, or
\* the file no longer has a preamble and the delete of its entry failed, in
\* which case the entry that was there stays.
OpenNoteOkEntryAgreesOrStale ==
  OpenNoteOk
    => \/ last.path \notin DOMAIN table
       \/ EntryAgrees(last.path)
       \/ /\ ~HasPreamble(files, last.path)
          /\ last.fault = "delete"
          /\ last.indexed

\* open_note returned Ok for a note edited into a file without a preamble,
\* the delete failed, and the entry is still there.
OpenNoteStaleWitness ==
  /\ OpenNoteOk
  /\ last.fault = "delete"
  /\ last.path \in DOMAIN table
  /\ ~HasPreamble(files, last.path)

\* ------------------------------------------------------------------------
\* Claims about the numbering scan
\* ------------------------------------------------------------------------

\* C38: for every set of file names in the directory,
\* find_next_destination_basename returns a name or an error value: it does
\* not panic, and the suffix of the name does not wrap around to 0.
SuffixComputationTotal ==
  last.op = "find_next"
    => /\ last.out.tag \in {"Ok", "ReadDirError"}
       /\ last.out.tag = "Ok" => last.out.basename # NumberedName(0)

\* What does hold: the same for the listings in which every suffix the
\* pattern captures parses as a u32 below u32::MAX.
SuffixComputationTotalBelowMax ==
  LET captured == {CapturedSuffix(nm, Stem, Extension) : nm \in last.names} \ {NoCapture}
  IN  (/\ last.op = "find_next"
       /\ \A ds \in captured : ParsesAsU32(ds) /\ StripZeros(ds) # U32MaxDigits)
        => /\ last.out.tag \in {"Ok", "ReadDirError"}
           /\ last.out.tag = "Ok" => last.out.basename # NumberedName(0)

\* ------------------------------------------------------------------------
\* Claims about the file stem of a title
\* ------------------------------------------------------------------------

\* The lowercased title with each space replaced by a dash and every other
\* ASCII character that is not alphanumeric removed.
RECURSIVE DashedAlphanumeric(_)
DashedAlphanumeric(title) ==
  IF Len(title) = 0 THEN << >>
  ELSE LET c == LowerChar(Head(title))
           rest == DashedAlphanumeric(Tail(title))
       IN  IF c = " " THEN <<"-">> \o rest
           ELSE IF c \in AsciiChars \ AsciiAlphanumeric THEN rest
           ELSE <<c>> \o rest

\* The stem is as C39 describes it, with no path separator and no dot.
StemAsDescribed ==
  /\ last.stem = DashedAlphanumeric(last.title)
  /\ \A i \in 1..Len(last.stem) : last.stem[i] \notin {"/", "."}

\* C39: the stem of a title is the lowercased title with each space
\* replaced by a dash and every ASCII character that is not alphanumeric
\* removed, it contains no path separator and no dot, and the destination of
\* the note is a direct child of the notes directory.
StemKeepsNoteInDirectory ==
  last.op = "stem"
    => /\ StemAsDescribed
       /\ PathParent(last.destination) = NotesDirectory

\* What does hold: the stem is as described for every title, and the
\* destination is a direct child of the notes directory when the stem is
\* not empty.
StemKeepsNoteInDirectoryUnlessEmpty ==
  last.op = "stem"
    => /\ StemAsDescribed
       /\ last.stem # << >> => PathParent(last.destination) = NotesDirectory

\* C40: open_note checks its target before anything else. When the path
\* names nothing or names a directory as the call starts, the call fails at
\* the lookup (no later step is reached, so no later step's failure is what
\* it returns), the editor is not run, and the files, the index rows and the
\* index store are what they were.
OpenNoteChecksTarget ==
  [][(last'.op = "open_note" /\ files[last'.path].is \in {"absent", "dir"})
       => /\ ~last'.ok
          /\ ~last'.edited
          /\ last'.fault = "none"
          /\ files' = files
          /\ table' = table
          /\ indexFile' = indexFile]_vars

\* open_note has just returned for a path that names a directory, with
\* notes in the index, one of them under that very path.
OpenNoteChecksTargetWitness ==
  /\ last.op = "open_note"
  /\ files[last.path].is = "dir"
  /\ last.indexed
  /\ ~last.ok
  /\ indexFile = "present"

====
